---------------------------- MODULE Spec2Model ----------------------------
(***************************************************************************)
(* WaveEnv: the streaming wave-field simulation engine.                    *)
(*                                                                         *)
(* One simulation task, its SimulationStepper (services/                   *)
(* simulation_stream.py), the driving loop _run_simulation_stream          *)
(* (api/simulation.py) and the HTTP handlers that run on the same asyncio  *)
(* event loop (api/simulation.py, api/query.py).                           *)
(*                                                                         *)
(* Time is counted in ticks; dt_backend, T_total and cache_retention_time   *)
(* are whole numbers of ticks.  The 1e-9 tolerance of the time-limit tests *)
(* is far below one tick and far above the rounding error of the sums of   *)
(* the model, so on this grid "x > L + 1e-9" is "x > L" and                *)
(* "x >= L - 1e-9" is "x >= L".  get_total_steps divides two times with no *)
(* tolerance; its quotient is the double quotient for a tick of a tenth of *)
(* a second (floor_quotient).                                              *)
(*                                                                         *)
(* asyncio runs a coroutine without interruption between two suspension    *)
(* points.  The loop's suspension points are the three awaits that really  *)
(* suspend (the paused poll's sleep, the await of a pending future, the    *)
(* pacing sleep); handlers and the delivery of a background result run     *)
(* only while the loop is at one of them (AtSuspension).                   *)
(***************************************************************************)
EXTENDS Integers, Sequences, FiniteSets, TLC

\* ------------------------------------------------------------------ bounds
MaxTime == 6
MaxDt == 2
MaxLimit == 4
MaxRetention == 3
\* Region extents and grid spacings, in units of the smallest spacing, and the
\* largest max_points.
MaxExtent == 6
MaxStep == 3
MaxPoints == 6
\* The largest number of lattice columns or rows, and of cached frames, of a
\* grid that is queried at a point.
MaxSide == 3
MaxFrames == 2

\* Optional[float] = None for T_total and cache_retention_time.
Unset == -1
\* time = -1 asks for the latest frame.
LATEST == -1

\* What the client may send as time_config.
DtChoices == 1..MaxDt
LimitChoices == {Unset} \cup (1..MaxLimit)
RetentionChoices == {Unset} \cup (1..MaxRetention)
\* Query times: the sentinel, one time before t=0 and the simulated range.
QueryTimes == (-2)..MaxTime

\* spectrum_model_type values a client may send.
SpectrumModelTypes == {"PM", "JONSWAP", "TMA"}

VARIABLES
    task,          \* the SimulationTask held by task_storage
    stepper,       \* the SimulationStepper
    pc,            \* where _run_simulation_stream stands
    frame,         \* _run_simulation_stream's local `frame`
    resp,          \* the last HTTP response sent by a handler
    ret,           \* the last return of a direct stepper call
    ctl,           \* history: the last pause/resume requests and what followed
    calc,          \* the last direct call of a pure function: arguments, result
    other,         \* a second task of task_storage with its driving loop
    hist           \* history: whether a precomputed frame was ever committed,
                   \* whether a precompute call found an evaluation in flight,
                   \* whether a background evaluation raised, whether a control
                   \* request repeated the one before it, the last create request

vars == <<task, stepper, pc, frame, resp, ret, ctl, calc, other, hist>>

\* No pure function has been called directly.
NoCall == [op |-> "none"]

\* task_storage holds no second task.
NoOther == [id |-> 0]

\* ------------------------------------------------------------- data model
SimulationStatus == {"pending", "running", "completed", "failed"}

\* SimulationStatus.<NAME>: an attribute the enum lacks raises AttributeError.
HasAttr(member) == member \in SimulationStatus

None == [kind |-> "None", time |-> 0, wave_height |-> 0]
Awaiting == [kind |-> "awaiting", time |-> 0, wave_height |-> 0]

\* The field is a closed form of t (spectrum and grid are fixed), so a height
\* array is represented by the time it is the evaluation of.
_initialize_wave_field == 0

_advance_wave_field(wave_height, dt, current_time) == current_time + dt

_create_frame(time, wave_height) ==
    [kind |-> "frame", time |-> time, wave_height |-> wave_height]

NoFuture == [st |-> "none", result |-> None]
PendingFuture == [st |-> "pending", result |-> None]
OrphanedFuture == [st |-> "orphaned", result |-> None]
DoneFuture(r) == [st |-> "done", result |-> r]

\* Faulty variant of the limit test: the boundary step counts as exceeding.
Exceeds_at_boundary(next_time, time_limit) ==
    time_limit # Unset /\ next_time >= time_limit

\* next_time > time_limit + 1e-9
Exceeds(next_time, time_limit) == time_limit # Unset /\ next_time > time_limit

\* next_time >= time_limit - 1e-9
Reached(time, time_limit) == time_limit # Unset /\ time >= time_limit

\* SpectrumConfig.spectrum_model_type: pattern="^(PM|JONSWAP)$".
ValidSpectrumConfig(spectrum_model_type) ==
    spectrum_model_type \in {"PM", "JONSWAP"}

\* A JSON field that may be left out or null.
RawOptional(values) ==
    {[given |-> FALSE, value |-> 0]}
        \cup {[given |-> TRUE, value |-> v] : v \in values}

\* The bodies a client may send to POST /simulate/area.
Regions ==
    [lon_min : {1}, lon_max : 0..2, lat_min : {1}, lat_max : 0..2]

TimeRequests ==
    [dt_backend : (-1)..MaxDt,
     T_total : RawOptional((-2)..MaxLimit),
     cache_retention_time : RawOptional((-1)..MaxRetention)]

Requests ==
    [region : Regions, spectrum_model_type : SpectrumModelTypes,
     time : TimeRequests]

NoRequest ==
    [region |-> [lon_min |-> 1, lon_max |-> 2, lat_min |-> 1, lat_max |-> 2],
     spectrum_model_type |-> "PM",
     time |-> [dt_backend |-> 1,
               T_total |-> [given |-> FALSE, value |-> 0],
               cache_retention_time |-> [given |-> FALSE, value |-> 0]]]

\* Region.validate_lon_range / validate_lat_range
validate_lon_range(region) == region.lon_max > region.lon_min

validate_lat_range(region) == region.lat_max > region.lat_min

\* Faulty variant of validate_T_total: every negative value means unlimited.
validate_T_total_any_negative(v) ==
    IF ~v.given \/ v.value < 0 THEN [ok |-> TRUE, value |-> Unset]
    ELSE IF v.value <= 0 THEN [ok |-> FALSE, value |-> Unset]
    ELSE [ok |-> TRUE, value |-> v.value]

\* TimeConfig.validate_T_total: None and -1 become None, other values <= 0
\* raise ValueError.
validate_T_total(v) ==
    IF ~v.given \/ v.value = -1 THEN [ok |-> TRUE, value |-> Unset]
    ELSE IF v.value <= 0 THEN [ok |-> FALSE, value |-> Unset]
    ELSE [ok |-> TRUE, value |-> v.value]

\* TimeConfig: dt_backend gt=0, T_total validated, cache_retention_time
\* None or gt=0.
ValidTimeConfig(time) ==
    /\ time.dt_backend > 0
    /\ validate_T_total(time.T_total).ok
    /\ time.cache_retention_time.given => time.cache_retention_time.value > 0

\* The TimeConfig object a valid body is parsed into.
ParsedTimeConfig(time) ==
    [dt_backend |-> time.dt_backend,
     T_total |-> validate_T_total(time.T_total).value,
     cache_retention_time |->
         IF time.cache_retention_time.given
         THEN time.cache_retention_time.value ELSE Unset]

\* AreaSimulationRequest: the body passes the schema.
ValidRequest(request) ==
    /\ validate_lon_range(request.region)
    /\ validate_lat_range(request.region)
    /\ ValidSpectrumConfig(request.spectrum_model_type)
    /\ ValidTimeConfig(request.time)

\* generate_spectrum(): the spectrum, or the exception it raises.
generate_spectrum(spectrum_model_type) ==
    IF spectrum_model_type = "PM" THEN "WaveSpectrum"
    ELSE IF spectrum_model_type = "JONSWAP" THEN "NotImplementedError"
    ELSE "ValueError"

\* ------------------------------------------------------ SimulationStepper
NewStepper(time_config) ==
    [ current_wave_height |-> _initialize_wave_field,
      dt |-> time_config.dt_backend,
      time_limit |-> time_config.T_total,
      current_time |-> 0,
      current_time_idx |-> 0,
      is_completed |-> FALSE,
      is_stopped |-> FALSE,
      next_frame_future |-> NoFuture,
      in_flight |-> 0 ]

\* Faulty variant of step(): no special case for the initial frame.
step_without_initial_frame(s) ==
    IF s.is_completed \/ s.is_stopped
    THEN [s |-> s, r |-> None]
    ELSE LET next_time == s.current_time + s.dt IN
         IF Exceeds(next_time, s.time_limit)
         THEN [s |-> [s EXCEPT !.is_completed = TRUE], r |-> None]
         ELSE [s |-> [s EXCEPT !.current_wave_height = next_time,
                               !.current_time = next_time,
                               !.current_time_idx = @ + 1,
                               !.is_completed = Reached(next_time, s.time_limit)],
               r |-> _create_frame(next_time, next_time)]

\* Faulty variant of step(): the completed/stopped test is missing.
step_without_completed_test(s) ==
    IF s.current_time_idx = 0
    THEN [s |-> [s EXCEPT !.current_time_idx = @ + 1],
          r |-> _create_frame(0, s.current_wave_height)]
    ELSE LET next_time == s.current_time + s.dt IN
         IF Exceeds(next_time, s.time_limit)
         THEN [s |-> [s EXCEPT !.is_completed = TRUE], r |-> None]
         ELSE [s |-> [s EXCEPT !.current_wave_height = next_time,
                               !.current_time = next_time,
                               !.current_time_idx = @ + 1,
                               !.is_completed = Reached(next_time, s.time_limit)],
               r |-> _create_frame(next_time, next_time)]

\* step(): [s |-> the stepper afterwards, r |-> the value returned]
step(s) ==
    IF s.is_completed \/ s.is_stopped
    THEN [s |-> s, r |-> None]
    ELSE IF s.current_time_idx = 0
    THEN [s |-> [s EXCEPT !.current_time_idx = @ + 1],
          r |-> _create_frame(0, s.current_wave_height)]
    ELSE LET next_time == s.current_time + s.dt IN
         IF Exceeds(next_time, s.time_limit)
         THEN [s |-> [s EXCEPT !.is_completed = TRUE], r |-> None]
         ELSE LET h == _advance_wave_field(s.current_wave_height, s.dt,
                                           s.current_time) IN
              [s |-> [s EXCEPT !.current_wave_height = h,
                               !.current_time = next_time,
                               !.current_time_idx = @ + 1,
                               !.is_completed = Reached(next_time, s.time_limit)],
               r |-> _create_frame(next_time, h)]

\* math.inf, above every step count of the model.
inf == 1000

\* The pairs <<time_limit, dt>>, in tenths of a second, whose double quotient
\* time_limit / dt lies just below the whole number it stands for:
\* 0.3 / 0.1 = 2.9999999999999996, 0.6 / 0.1 = 5.999999999999999,
\* 0.6 / 0.2 = 2.9999999999999996, 0.7 / 0.1 = 6.999999999999999.  Every other
\* quotient of two times up to 0.7 s has the floor of the exact quotient.
QuotientBelow == {<<3, 1>>, <<6, 1>>, <<6, 2>>, <<7, 1>>}

\* math.floor(time_limit / dt)
floor_quotient(time_limit, dt) ==
    IF <<time_limit, dt>> \in QuotientBelow
    THEN (time_limit \div dt) - 1
    ELSE time_limit \div dt

\* get_total_steps()
get_total_steps(s) ==
    IF s.time_limit = Unset THEN inf
    ELSE floor_quotient(s.time_limit, s.dt) + 1

\* get_current_step()
get_current_step(s) == s.current_time_idx

\* stop(): a precompute task that is not done is cancelled; run_compute then
\* ends with CancelledError before set_result, so its future never resolves.
stop(s) ==
    [s EXCEPT !.is_stopped = TRUE,
              !.is_completed = TRUE,
              !.next_frame_future =
                  IF @.st = "pending" THEN OrphanedFuture ELSE @]

\* Faulty variant of precompute_next_frame(): a future that is not done does
\* not keep it from starting another evaluation.
precompute_next_frame_unguarded(s) ==
    IF s.is_completed \/ s.is_stopped THEN s
    ELSE [s EXCEPT !.next_frame_future = PendingFuture,
                   !.in_flight = @ + 1]

\* precompute_next_frame(): in_flight counts the evaluations handed to the
\* executor that have not returned.
precompute_next_frame(s) ==
    IF s.is_completed \/ s.is_stopped THEN s
    ELSE IF s.next_frame_future.st \in {"pending", "orphaned"} THEN s
    ELSE [s EXCEPT !.next_frame_future = PendingFuture,
                   !.in_flight = @ + 1]

\* Faulty variant of compute_frame(): an evaluation makes up for lost time
\* and evaluates two steps ahead.
compute_frame_catching_up(s) ==
    IF s.is_completed \/ s.is_stopped THEN None
    ELSE LET next_time == IF s.current_time_idx = 0
                          THEN 2 * s.dt ELSE s.current_time + 2 * s.dt
         IN IF Exceeds(next_time, s.time_limit) THEN None
            ELSE _create_frame(next_time,
                     _advance_wave_field(s.current_wave_height, 2 * s.dt,
                                         next_time - 2 * s.dt))

\* compute_frame(): what the worker thread returns for the stepper it reads.
compute_frame(s) ==
    IF s.is_completed \/ s.is_stopped THEN None
    ELSE LET next_time == IF s.current_time_idx = 0
                          THEN s.dt ELSE s.current_time + s.dt
             current_time == IF s.current_time_idx > 0
                             THEN s.current_time ELSE 0
         IN IF Exceeds(next_time, s.time_limit) THEN None
            ELSE _create_frame(next_time,
                     _advance_wave_field(s.current_wave_height, s.dt,
                                         current_time))

\* Faulty variant of run_compute(): the evaluation writes its result into
\* the stepper's committed state as soon as it is finished.
run_compute_committing(s) ==
    LET r == compute_frame(s) IN
    IF r = None THEN [s EXCEPT !.next_frame_future = DoneFuture(r),
                               !.in_flight = @ - 1]
    ELSE [s EXCEPT !.next_frame_future = DoneFuture(r),
                   !.in_flight = @ - 1,
                   !.current_wave_height = r.wave_height,
                   !.current_time = r.time]

\* run_compute(): the future is resolved with compute_frame's result.
run_compute(s) ==
    [s EXCEPT !.next_frame_future = DoneFuture(compute_frame(s)),
              !.in_flight = @ - 1]

\* Faulty variant of the commit: current_time is not set to the frame's time.
collect_precomputed_without_time(s) ==
    LET result == s.next_frame_future.result
        s1 == [s EXCEPT !.next_frame_future = NoFuture]
    IN IF result = None
       THEN [s |-> [s1 EXCEPT !.is_completed = TRUE], r |-> None]
       ELSE LET s2 == [s1 EXCEPT
                          !.current_wave_height = result.wave_height,
                          !.current_time_idx = @ + 1,
                          !.is_completed =
                              @ \/ Reached(result.time, s.time_limit)]
            IN [s |-> precompute_next_frame(s2), r |-> result]

\* Faulty variant of the commit: the following precomputation is not
\* scheduled.
collect_precomputed_without_reschedule(s) ==
    LET result == s.next_frame_future.result
        s1 == [s EXCEPT !.next_frame_future = NoFuture]
    IN IF result = None
       THEN [s |-> [s1 EXCEPT !.is_completed = TRUE], r |-> None]
       ELSE [s |-> [s1 EXCEPT
                       !.current_wave_height = result.wave_height,
                       !.current_time = result.time,
                       !.current_time_idx = @ + 1,
                       !.is_completed =
                           @ \/ Reached(result.time, s.time_limit)],
             r |-> result]

\* Faulty variant of collect_precomputed(): a None result does not mark the
\* stepper completed.
collect_precomputed_unmarked(s) ==
    LET result == s.next_frame_future.result
        s1 == [s EXCEPT !.next_frame_future = NoFuture]
    IN IF result = None
       THEN [s |-> s1, r |-> None]
       ELSE LET s2 == [s1 EXCEPT
                          !.current_wave_height = result.wave_height,
                          !.current_time = result.time,
                          !.current_time_idx = @ + 1,
                          !.is_completed =
                              @ \/ Reached(result.time, s.time_limit)]
            IN [s |-> precompute_next_frame(s2), r |-> result]

\* get_precomputed_frame() from the point where the awaited future is done.
collect_precomputed(s) ==
    LET result == s.next_frame_future.result
        s1 == [s EXCEPT !.next_frame_future = NoFuture]
    IN IF result = None
       THEN [s |-> [s1 EXCEPT !.is_completed = TRUE], r |-> None]
       ELSE LET s2 == [s1 EXCEPT
                          !.current_wave_height = result.wave_height,
                          !.current_time = result.time,
                          !.current_time_idx = @ + 1,
                          !.is_completed =
                              @ \/ Reached(result.time, s.time_limit)]
            IN [s |-> precompute_next_frame(s2), r |-> result]

\* get_precomputed_frame() when it does not suspend: no future, or a done one.
get_precomputed_frame(s) ==
    IF s.next_frame_future.st = "none"
    THEN [s |-> s, r |-> None]
    ELSE collect_precomputed(s)

\* The model follows a stepper up to MaxTime.
WithinBound(s) ==
    (IF s.current_time_idx = 0 THEN s.dt ELSE s.current_time + s.dt) <= MaxTime


\* ------------------------------------------------- task and task registry
NewTask(spectrum_model_type, time_config) ==
    [ status |-> "pending",
      spectrum_model_type |-> spectrum_model_type,
      time_config |-> time_config,
      wave_grid |-> "None",
      frames |-> <<>>,
      clock_paused |-> FALSE,
      stop_requested |-> FALSE ]

update_task_status(t, status) == [t EXCEPT !.status = status]

_cleanup_task_resources(t) == [t EXCEPT !.frames = <<>>, !.wave_grid = "None"]

Terminal == {"completed", "failed", "stopped"}

Last(seq) == seq[Len(seq)]

\* Faulty variant of the retention filter: the comparison is inverted.
Retain_inverted(frames, retention_threshold) ==
    SelectSeq(frames, LAMBDA f : f.time < retention_threshold)

\* The retention filter of the loop: frames with time >= threshold stay.
Retain(frames, retention_threshold) ==
    SelectSeq(frames, LAMBDA f : f.time >= retention_threshold)

\* Faulty variant of the append: expired frames are never evicted.
AppendFrame_without_eviction(frames, f, cache_retention_time) ==
    Append(frames, f)

\* task.frames.append(frame), then the eviction of expired frames.
AppendFrame(frames, f, cache_retention_time) ==
    LET appended == Append(frames, f) IN
    IF cache_retention_time # Unset /\ Len(appended) > 0
    THEN Retain(appended, f.time - cache_retention_time)
    ELSE appended

\* ----------------------------------------------------------- driving loop
SuspensionPoints == {"start", "pause_sleep", "await", "pace_sleep", "exited"}

AtSuspension == pc \in SuspensionPoints

\* The first post-resume append closes the pause/resume history.
Continued(c, f) ==
    IF c.phase = "resumed"
    THEN [c EXCEPT !.phase = "continued", !.first_post = f.time]
    ELSE c

\* Faulty variant of the stop branch: no break, so the frame in hand is
\* appended to the cleared list and the loop goes on.
LoopStop_without_break ==
    /\ stepper' = stop(stepper)
    /\ task' = [task EXCEPT
                   !.frames = IF pc = "recheck" /\ frame # None
                              THEN <<frame>> ELSE <<>>,
                   !.wave_grid = "None",
                   !.status = IF HasAttr("stopped") THEN "stopped" ELSE "failed"]
    /\ pc' = "top"
    /\ UNCHANGED <<frame, ctl, hist>>

\* Faulty variant of the stop branch: the request is consumed and the loop
\* goes on instead of ending.
LoopStop_resuming ==
    /\ stepper' = stop(stepper)
    /\ task' = [_cleanup_task_resources(task) EXCEPT
                   !.stop_requested = FALSE,
                   !.status = IF HasAttr("stopped") THEN "stopped" ELSE "failed"]
    /\ pc' = "top"
    /\ UNCHANGED <<frame, ctl, hist>>

\* stepper.stop(); _cleanup_task_resources(task);
\* update_task_status(simulation_id, SimulationStatus.STOPPED); break.
\* An AttributeError raised by the last line is caught by the loop's
\* except clause, which marks the task FAILED and ends the coroutine.
LoopStop ==
    /\ stepper' = stop(stepper)
    /\ task' = IF HasAttr("stopped")
               THEN update_task_status(_cleanup_task_resources(task), "stopped")
               ELSE update_task_status(_cleanup_task_resources(task), "failed")
    /\ pc' = "exited"
    /\ UNCHANGED <<frame, ctl, hist>>

\* Faulty variant of the completed branch: the loop ends without marking
\* the task.
LoopCompleted_unmarked ==
    /\ pc' = "exited"
    /\ UNCHANGED <<task, stepper, frame, ctl, hist>>

\* elif stepper.is_completed and stepper.time_limit is not None: COMPLETED
LoopCompleted ==
    /\ task' = update_task_status(task, "completed")
    /\ pc' = "exited"
    /\ UNCHANGED <<stepper, frame, ctl, hist>>

\* Lines 75-102: the stepper is built (generate_spectrum may raise, which
\* the except clause turns into FAILED), then the t=0 frame and the first
\* precomputation.
LoopStart ==
    /\ pc = "start"
    /\ IF generate_spectrum(task.spectrum_model_type) # "WaveSpectrum"
       THEN /\ task' = update_task_status(task, "failed")
            /\ stepper' = stepper
            /\ pc' = "exited"
       ELSE LET st == step(NewStepper(task.time_config)) IN
            /\ IF st.r # None
               THEN /\ task' = [task EXCEPT !.frames = Append(@, st.r)]
                    /\ stepper' = precompute_next_frame(st.s)
               ELSE /\ task' = task
                    /\ stepper' = st.s
            /\ pc' = "top"
    /\ UNCHANGED <<frame, resp, ret, ctl, hist>>
    /\ UNCHANGED <<calc, other>>

\* Faulty variant of the top of the loop: a frame that is not ready is not
\* awaited, the loop computes it itself with step().
LoopTop_stepping_while_pending ==
    /\ pc = "top"
    /\ IF task.stop_requested THEN LoopStop
       ELSE IF stepper.is_completed /\ stepper.time_limit # Unset
       THEN LoopCompleted
       ELSE IF task.clock_paused
       THEN /\ pc' = "pause_sleep"
            /\ UNCHANGED <<task, stepper, frame, ctl, hist>>
       ELSE IF stepper.next_frame_future.st \in {"pending", "orphaned"}
       THEN LET st == step(stepper) IN
            /\ stepper' = st.s
            /\ frame' = st.r
            /\ pc' = "pace_sleep"
            /\ UNCHANGED <<task, ctl, hist>>
       ELSE LET got == get_precomputed_frame(stepper) IN
            /\ stepper' = got.s
            /\ frame' = got.r
            /\ hist' = [hist EXCEPT !.pipelined = @ \/ got.r # None]
            /\ pc' = "pace_sleep"
            /\ UNCHANGED <<task, ctl>>
    /\ UNCHANGED <<resp, ret>>
    /\ UNCHANGED <<calc, other>>

\* Lines 105-133: the checks at the top of the loop and the call of
\* get_precomputed_frame(), up to the first await that suspends.
LoopTop ==
    /\ pc = "top"
    /\ IF task.stop_requested THEN LoopStop
       ELSE IF stepper.is_completed /\ stepper.time_limit # Unset
       THEN LoopCompleted
       ELSE IF task.clock_paused
       THEN /\ pc' = "pause_sleep"
            /\ UNCHANGED <<task, stepper, frame, ctl, hist>>
       ELSE IF stepper.next_frame_future.st \in {"pending", "orphaned"}
       THEN /\ pc' = "await"
            /\ UNCHANGED <<task, stepper, frame, ctl, hist>>
       ELSE LET got == get_precomputed_frame(stepper) IN
            /\ stepper' = got.s
            /\ frame' = got.r
            /\ hist' = [hist EXCEPT !.pipelined = @ \/ got.r # None]
            /\ pc' = "pace_sleep"
            /\ UNCHANGED <<task, ctl>>
    /\ UNCHANGED <<resp, ret>>
    /\ UNCHANGED <<calc, other>>

\* Line 133 resumes: the awaited future is done.  The wait took less than dt
\* (the loop sleeps the rest) or not (it goes on without suspending).
LoopAwaitDone ==
    /\ pc = "await"
    /\ stepper.next_frame_future.st = "done"
    /\ LET got == collect_precomputed(stepper) IN
       /\ stepper' = got.s
       /\ frame' = got.r
       /\ hist' = [hist EXCEPT !.pipelined = @ \/ got.r # None]
    /\ \E step_elapsed_lt_dt \in BOOLEAN :
          pc' = IF step_elapsed_lt_dt THEN "pace_sleep" ELSE "recheck"
    /\ UNCHANGED <<task, resp, ret, ctl>>
    /\ UNCHANGED <<calc, other>>

\* asyncio.sleep returns: the paused poll (line 125) or the pacing (line 141).
LoopSleepDone ==
    /\ pc \in {"pause_sleep", "pace_sleep"}
    /\ pc' = IF pc = "pause_sleep" THEN "top" ELSE "recheck"
    /\ UNCHANGED <<task, stepper, frame, resp, ret, ctl, hist>>
    /\ UNCHANGED <<calc, other>>

\* Faulty variant of the re-check: a None frame from a completed stepper
\* marks the task COMPLETED whether or not a time limit is set.
LoopRecheck_completing_without_limit ==
    /\ pc = "recheck"
    /\ IF task.stop_requested THEN LoopStop
       ELSE IF task.clock_paused
       THEN /\ pc' = "top"
            /\ UNCHANGED <<task, stepper, frame, ctl, hist>>
       ELSE IF frame = None
       THEN IF stepper.is_completed
            THEN LoopCompleted
            ELSE /\ pc' = "exited"
                 /\ UNCHANGED <<task, stepper, frame, ctl, hist>>
       ELSE /\ task' = [task EXCEPT !.frames =
                           AppendFrame(@, frame,
                                       task.time_config.cache_retention_time)]
            /\ ctl' = Continued(ctl, frame)
            /\ pc' = "top"
            /\ UNCHANGED <<stepper, frame, hist>>
    /\ UNCHANGED <<resp, ret>>
    /\ UNCHANGED <<calc, other>>

\* Lines 143-186: the re-check after the sleep, then the append and eviction.
LoopRecheck ==
    /\ pc = "recheck"
    /\ IF task.stop_requested THEN LoopStop
       ELSE IF task.clock_paused
       THEN /\ pc' = "top"
            /\ UNCHANGED <<task, stepper, frame, ctl, hist>>
       ELSE IF frame = None
       THEN IF stepper.is_completed /\ stepper.time_limit # Unset
            THEN LoopCompleted
            ELSE /\ pc' = "exited"
                 /\ UNCHANGED <<task, stepper, frame, ctl, hist>>
       ELSE /\ task' = [task EXCEPT !.frames =
                           AppendFrame(@, frame,
                                       task.time_config.cache_retention_time)]
            /\ ctl' = Continued(ctl, frame)
            /\ pc' = "top"
            /\ UNCHANGED <<stepper, frame, hist>>
    /\ UNCHANGED <<resp, ret>>
    /\ UNCHANGED <<calc, other>>

\* The worker thread finishes compute_frame and run_compute resolves the
\* future (on the event loop, so while the driving loop is suspended).
ComputeDone ==
    /\ AtSuspension
    /\ stepper.next_frame_future.st = "pending"
    /\ WithinBound(stepper)
    /\ stepper' = run_compute(stepper)
    /\ UNCHANGED <<task, pc, frame, resp, ret, ctl, hist>>
    /\ UNCHANGED <<calc, other>>

\* compute_frame() when the evaluation raises: its except clause prints the
\* error and returns None.
compute_frame_raising(s) == None

\* The worker thread's evaluation raises (_advance_wave_field or
\* _create_frame fails); run_compute resolves the future with the None that
\* compute_frame returns for it.
ComputeFailed ==
    /\ AtSuspension
    /\ stepper.next_frame_future.st = "pending"
    /\ stepper' = [stepper EXCEPT
                      !.next_frame_future = DoneFuture(compute_frame_raising(stepper)),
                      !.in_flight = @ - 1]
    /\ hist' = [hist EXCEPT !.raised = TRUE]
    /\ UNCHANGED <<task, pc, frame, resp, ret, ctl>>
    /\ UNCHANGED <<calc, other>>

\* --------------------------------------------------------- HTTP handlers
Response(op, t, code, status, f) ==
    [op |-> op, t |-> t, code |-> code, status |-> status, frame |-> f]

NoResponse == Response("none", 0, 0, "", None)

\* A pause request on a running task opens the pause/resume history.
PauseRequested(c, t) ==
    IF t.status = "running" /\ t.frames # <<>>
    THEN [phase |-> "paused", last_pre |-> Last(t.frames).time, first_post |-> 0]
    ELSE c

ResumeRequested(c) ==
    IF c.phase = "paused" THEN [c EXCEPT !.phase = "resumed"] ELSE c

\* A control request that follows a request of the same kind is noted.
Repeated(h, op) == [h EXCEPT !.repeated = @ \/ resp.op = op]

\* Faulty variant of the pause handler: the clock flag is flipped.
pause_simulation_clock_toggling ==
    /\ AtSuspension
    /\ ctl' = PauseRequested(ctl, task)
    /\ task' = [task EXCEPT !.clock_paused = ~@]
    /\ resp' = Response("pause", 0, 200, "paused", None)
    /\ hist' = Repeated(hist, "pause")
    /\ UNCHANGED <<stepper, pc, frame, ret>>
    /\ UNCHANGED <<calc, other>>

\* Faulty variant of the pause handler: pausing releases the task's data and
\* cancels the evaluation in flight, as a stop does.
pause_simulation_clock_releasing ==
    /\ AtSuspension
    /\ ctl' = PauseRequested(ctl, task)
    /\ task' = _cleanup_task_resources(task)
    /\ stepper' = [stepper EXCEPT !.next_frame_future =
                       IF @.st = "pending" THEN OrphanedFuture ELSE @]
    /\ resp' = Response("pause", 0, 200, "paused", None)
    /\ hist' = Repeated(hist, "pause")
    /\ UNCHANGED <<pc, frame, ret>>
    /\ UNCHANGED <<calc, other>>

\* POST /simulation/{id}/clock/pause.  The set literal of terminal statuses
\* is built first; SimulationStatus.STOPPED raises AttributeError when the
\* enum has no such member, and the request ends as a 500.
pause_simulation_clock ==
    /\ AtSuspension
    /\ ctl' = PauseRequested(ctl, task)
    /\ IF ~HasAttr("stopped")
       THEN /\ resp' = Response("pause", 0, 500, "", None)
            /\ task' = task
       ELSE IF task.status \in Terminal
       THEN /\ resp' = Response("pause", 0, 400, "", None)
            /\ task' = task
       ELSE IF ~task.clock_paused
       THEN IF HasAttr("paused")
            THEN /\ task' = [task EXCEPT !.clock_paused = TRUE,
                                         !.status = "paused"]
                 /\ resp' = Response("pause", 0, 200, "paused", None)
            ELSE /\ task' = [task EXCEPT !.clock_paused = TRUE]
                 /\ resp' = Response("pause", 0, 500, "", None)
       ELSE IF HasAttr("paused")
            THEN /\ resp' = Response("pause", 0, 200, "paused", None)
                 /\ task' = task
            ELSE /\ resp' = Response("pause", 0, 500, "", None)
                 /\ task' = task
    /\ hist' = Repeated(hist, "pause")
    /\ UNCHANGED <<stepper, pc, frame, ret>>
    /\ UNCHANGED <<calc, other>>

\* POST /simulation/{id}/clock/resume.
resume_simulation_clock ==
    /\ AtSuspension
    /\ ctl' = ResumeRequested(ctl)
    /\ IF ~HasAttr("stopped")
       THEN /\ resp' = Response("resume", 0, 500, "", None)
            /\ task' = task
       ELSE IF task.status \in Terminal
       THEN /\ resp' = Response("resume", 0, 400, "", None)
            /\ task' = task
       ELSE /\ task' = IF task.clock_paused
                       THEN [task EXCEPT !.clock_paused = FALSE,
                                         !.status = "running"]
                       ELSE task
            /\ resp' = Response("resume", 0, 200, "running", None)
    /\ hist' = Repeated(hist, "resume")
    /\ UNCHANGED <<stepper, pc, frame, ret>>
    /\ UNCHANGED <<calc, other>>

\* The body of stop-all's loop for one task of list_tasks(): a RUNNING or
\* PENDING task gets its flags set before update_task_status(...,
\* SimulationStatus.STOPPED) is evaluated; an AttributeError there is caught
\* per task and only printed.
StopMarked(t) ==
    IF t.status \in {"running", "pending"}
    THEN [t EXCEPT !.stop_requested = TRUE,
                   !.clock_paused = FALSE,
                   !.status = IF HasAttr("stopped") THEN "stopped" ELSE @]
    ELSE t

\* Faulty variant of the stop handler: it stops every task of the storage.
stop_simulation_every_task ==
    /\ AtSuspension
    /\ task' = StopMarked(task)
    /\ other' = IF other = NoOther THEN other
                ELSE [other EXCEPT !.task = StopMarked(@)]
    /\ resp' = Response("stop", 0, 200, "stopped", None)
    /\ hist' = Repeated(hist, "stop")
    /\ UNCHANGED <<stepper, pc, frame, ret, ctl, calc>>

\* POST /simulation/{id}/stop.
stop_simulation ==
    /\ AtSuspension
    /\ IF ~HasAttr("stopped")
       THEN /\ resp' = Response("stop", 0, 500, "", None)
            /\ task' = task
       ELSE IF task.status \in Terminal
       THEN /\ task' = IF task.status = "stopped"
                       THEN _cleanup_task_resources(task) ELSE task
            /\ resp' = Response("stop", 0, 200, task.status, None)
       ELSE /\ task' = [task EXCEPT !.stop_requested = TRUE,
                                    !.clock_paused = FALSE,
                                    !.status = "stopped"]
            /\ resp' = Response("stop", 0, 200, "stopped", None)
    /\ hist' = Repeated(hist, "stop")
    /\ UNCHANGED <<stepper, pc, frame, ret, ctl>>
    /\ UNCHANGED <<calc, other>>

\* POST /simulations/stop-all: every task of task_storage.list_tasks().
stop_all_simulations ==
    /\ AtSuspension
    /\ task' = StopMarked(task)
    /\ other' = IF other = NoOther THEN other
                ELSE [other EXCEPT !.task = StopMarked(@)]
    /\ resp' = Response("stop_all", 0, 200, "", None)
    /\ UNCHANGED <<stepper, pc, frame, ret, ctl, hist>>
    /\ UNCHANGED calc

\* Faulty variant of the expiry test: measured from the oldest cached frame.
Expired_from_oldest(t, time, cache_retention_time) ==
    /\ cache_retention_time # Unset
    /\ t.frames # <<>>
    /\ time < t.frames[1].time - cache_retention_time

\* latest_time - cache_retention_time: the lower end of the cache range.
Expired(t, time, cache_retention_time) ==
    /\ cache_retention_time # Unset
    /\ t.frames # <<>>
    /\ time < Last(t.frames).time - cache_retention_time

Abs(x) == IF x < 0 THEN -x ELSE x

\* Faulty variant of the scan: the oldest cached frame is taken.
ClosestFrame_oldest(frames, target_time) == frames[1]

\* The linear scan for the frame closest in time (the first one on a tie).
ClosestFrame(frames, target_time) ==
    LET best == CHOOSE i \in 1..Len(frames) :
                   /\ \A j \in 1..Len(frames) :
                         Abs(frames[i].time - target_time)
                             <= Abs(frames[j].time - target_time)
                   /\ \A j \in 1..(i - 1) :
                         Abs(frames[j].time - target_time)
                             > Abs(frames[i].time - target_time)
    IN frames[best]

\* GET .../simulation/{id}/frames?time=... (the same body in both routers).
get_simulation_frames_response(t, time) ==
    IF t.status = "absent"
    THEN Response("frames", time, 404, "", None)
    ELSE IF time = LATEST
    THEN IF t.frames # <<>>
         THEN Response("frames", time, 200, t.status, Last(t.frames))
         ELSE Response("frames", time, 404, "", None)
    ELSE IF Expired(t, time, t.time_config.cache_retention_time)
    THEN Response("frames", time, 410, "", None)
    ELSE IF t.frames # <<>>
    THEN Response("frames", time, 200, t.status, ClosestFrame(t.frames, time))
    ELSE Response("frames", time, 404, "", None)

\* Faulty variant of the point query: without a stored dense grid it answers
\* 404 instead of building the grid from the cached frames.
query_wave_at_point_response_needs_grid(t, time) ==
    IF t.wave_grid = "None"
    THEN Response("point", time, 404, "", None)
    ELSE Response("point", time, 200, "", None)

\* GET /query/point?time=...: the time and retention checks of the handler.
query_wave_at_point_response(t, time) ==
    IF t.status = "absent"
    THEN Response("point", time, 404, "", None)
    ELSE IF time = LATEST /\ t.frames = <<>>
    THEN Response("point", time, 404, "", None)
    ELSE LET query_time == IF time = LATEST THEN Last(t.frames).time ELSE time
         IN IF Expired(t, query_time, t.time_config.cache_retention_time)
            THEN Response("point", time, 410, "", None)
            ELSE IF t.frames = <<>>
            THEN Response("point", time, 404, "", None)
            ELSE Response("point", time, 200, "", None)

\* A query can be served while the loop is suspended and while no task (and
\* so no loop) exists; the model asks for an unknown id before the create
\* request is sent.
Serving == AtSuspension \/ (pc = "absent" /\ hist.request = NoRequest)

get_simulation_frames(time) ==
    /\ Serving
    /\ resp' = get_simulation_frames_response(task, time)
    /\ UNCHANGED <<task, stepper, pc, frame, ret, ctl, hist>>
    /\ UNCHANGED <<calc, other>>

query_wave_at_point(time) ==
    /\ Serving
    /\ resp' = query_wave_at_point_response(task, time)
    /\ UNCHANGED <<task, stepper, pc, frame, ret, ctl, hist>>
    /\ UNCHANGED <<calc, other>>

\* What a client may send as a range request: time_min, time_max and
\* max_frames as query parameters, and no time.
RangeRequests ==
    {r \in [time_min : 0..MaxDt, time_max : 0..(2 * MaxDt), max_frames : 1..MaxDt] :
        r.time_min <= r.time_max}

\* GET /simulation/{id}/frames has one query parameter, time = Query(...),
\* which is required: a request that carries time_min, time_max and
\* max_frames instead fails validation with 422 before the handler runs.
get_simulation_frames_range_response(t, request) ==
    [op |-> "frames_range", t |-> request.time_min, code |-> 422, status |-> "",
     frame |-> None, frames |-> <<>>, time_max |-> request.time_max,
     max_frames |-> request.max_frames]

get_simulation_frames_range ==
    /\ Serving
    /\ \E request \in RangeRequests :
          resp' = get_simulation_frames_range_response(task, request)
    /\ UNCHANGED <<task, stepper, pc, frame, ret, ctl, hist>>
    /\ UNCHANGED <<calc, other>>

\* ---------------------------------------------------------- specification
TimeConfigs ==
    [dt_backend : DtChoices, T_total : LimitChoices,
     cache_retention_time : RetentionChoices]

\* create_area_simulation has returned for a Pierson-Moskowitz request: the
\* task is RUNNING and the driving loop has been scheduled.
Init ==
    \E time_config \in TimeConfigs :
        /\ task = update_task_status(NewTask("PM", time_config), "running")
        /\ stepper = NewStepper(time_config)
        /\ pc = "start"
        /\ frame = None
        /\ resp = NoResponse
        /\ ret = [op |-> "none", val |-> None, after_stop |-> FALSE]
        /\ ctl = [phase |-> "none", last_pre |-> 0, first_post |-> 0]
        /\ calc = NoCall
        /\ other = NoOther
        /\ hist = [pipelined |-> FALSE, declined |-> FALSE, raised |-> FALSE,
                repeated |-> FALSE, request |-> NoRequest]

\* The driving coroutine.
LoopSteps ==
    \/ LoopStart
    \/ LoopTop
    \/ LoopAwaitDone
    \/ LoopSleepDone
    \/ LoopRecheck

\* The driving loop with its worker thread.
Loop ==
    \/ LoopSteps
    \/ ComputeDone

\* The task under its driving loop and the control requests.
Next ==
    \/ Loop
    \/ pause_simulation_clock
    \/ resume_simulation_clock
    \/ stop_simulation
    \/ stop_all_simulations

Spec == Init /\ [][Next]_vars

\* The event loop runs every ready coroutine and the worker thread finishes
\* every evaluation it was given.
FairSpec == Spec /\ WF_vars(LoopSteps) /\ WF_vars(ComputeDone)

\* The task under its driving loop and the query requests.
QueryNext ==
    \/ Loop
    \/ stop_all_simulations
    \/ \E time \in QueryTimes : get_simulation_frames(time)
    \/ \E time \in QueryTimes : query_wave_at_point(time)

QuerySpec == Init /\ [][QueryNext]_vars

\* The task under its driving loop and the range requests.
RangeNext ==
    \/ Loop
    \/ get_simulation_frames_range

RangeSpec == Init /\ [][RangeNext]_vars

\* A task that is left alone: the event loop runs the driving coroutine
\* whenever it is ready and the worker thread finishes what it was given.
RunSpec == Init /\ [][Loop]_vars /\ WF_vars(LoopSteps) /\ WF_vars(ComputeDone)

\* The driving loop with a worker thread whose evaluations may raise.
FaultNext ==
    \/ Loop
    \/ ComputeFailed

FaultSpec == Init /\ [][FaultNext]_vars

\* --------------------------------------------------- creation of the task
\* No task is registered and no stepper is built.
NoTask ==
    [NewTask("PM", [dt_backend |-> 1, T_total |-> Unset,
                    cache_retention_time |-> Unset])
        EXCEPT !.status = "absent"]

\* POST /simulate/area.  A body the schema rejects ends as a 422 before the
\* handler runs; otherwise the task is created PENDING, set RUNNING, the
\* driving loop is scheduled and 201 with status RUNNING is returned.  The
\* model follows one create request.
create_area_simulation ==
    /\ pc = "absent"
    /\ hist.request = NoRequest
    /\ \E request \in Requests :
          /\ hist' = [hist EXCEPT !.request = request]
          /\ IF ~ValidRequest(request)
             THEN /\ resp' = Response("create", 0, 422, "", None)
                  /\ UNCHANGED <<task, pc>>
             ELSE /\ task' = update_task_status(
                                 NewTask(request.spectrum_model_type,
                                         ParsedTimeConfig(request.time)),
                                 "running")
                  /\ pc' = "start"
                  /\ resp' = Response("create", 0, 201, "running", None)
    /\ UNCHANGED <<stepper, frame, ret, ctl>>
    /\ UNCHANGED <<calc, other>>

CreateInit ==
    /\ task = NoTask
    /\ stepper = NewStepper(NoTask.time_config)
    /\ pc = "absent"
    /\ frame = None
    /\ resp = NoResponse
    /\ ret = [op |-> "none", val |-> None, after_stop |-> FALSE]
    /\ ctl = [phase |-> "none", last_pre |-> 0, first_post |-> 0]
    /\ calc = NoCall
    /\ other = NoOther
    /\ hist = [pipelined |-> FALSE, declined |-> FALSE, raised |-> FALSE,
                repeated |-> FALSE, request |-> NoRequest]

\* The service from the create request on.
CreateNext ==
    \/ create_area_simulation
    \/ Next

CreateSpec == CreateInit /\ [][CreateNext]_vars

\* The service from the create request on, with a worker thread whose
\* evaluations may raise.
LifeNext ==
    \/ CreateNext
    \/ ComputeFailed

LifeSpec == CreateInit /\ [][LifeNext]_vars

\* The service with its query requests, from the create request on.
ServiceNext ==
    \/ create_area_simulation
    \/ QueryNext

ServiceSpec == CreateInit /\ [][ServiceNext]_vars

\* ------------------------------------------- the stepper called directly
Returned(op, val, s) == [op |-> op, val |-> val, after_stop |-> s.is_stopped]

ClientReady == ret.val # Awaiting

CallStep ==
    /\ ClientReady
    /\ LET st == step(stepper) IN
       /\ st.s.current_time <= MaxTime
       /\ stepper' = st.s
       /\ ret' = Returned("step", st.r, stepper)
    /\ UNCHANGED <<task, pc, frame, resp, ctl, hist>>
    /\ UNCHANGED <<calc, other>>

CallPrecompute ==
    /\ ClientReady
    /\ stepper' = precompute_next_frame(stepper)
    /\ ret' = Returned("precompute_next_frame", None, stepper)
    /\ hist' = [hist EXCEPT !.declined =
                    @ \/ (stepper.next_frame_future.st = "pending"
                             /\ ~stepper.is_completed /\ ~stepper.is_stopped)]
    /\ UNCHANGED <<task, pc, frame, resp, ctl>>
    /\ UNCHANGED <<calc, other>>

\* A future that is not done suspends the caller at `await`.
CallGetPrecomputed ==
    /\ ClientReady
    /\ IF stepper.next_frame_future.st \in {"pending", "orphaned"}
       THEN /\ ret' = Returned("get_precomputed_frame", Awaiting, stepper)
            /\ UNCHANGED <<stepper, hist>>
       ELSE LET got == get_precomputed_frame(stepper) IN
            /\ stepper' = got.s
            /\ ret' = Returned("get_precomputed_frame", got.r, stepper)
            /\ hist' = [hist EXCEPT !.pipelined = @ \/ got.r # None]
    /\ UNCHANGED <<task, pc, frame, resp, ctl>>
    /\ UNCHANGED <<calc, other>>

ClientAwaitDone ==
    /\ ret.val = Awaiting
    /\ stepper.next_frame_future.st = "done"
    /\ LET got == collect_precomputed(stepper) IN
       /\ stepper' = got.s
       /\ ret' = [ret EXCEPT !.val = got.r]
       /\ hist' = [hist EXCEPT !.pipelined = @ \/ got.r # None]
    /\ UNCHANGED <<task, pc, frame, resp, ctl>>
    /\ UNCHANGED <<calc, other>>

CallStop ==
    /\ ClientReady
    /\ stepper' = stop(stepper)
    /\ ret' = Returned("stop", None, stepper)
    /\ UNCHANGED <<task, pc, frame, resp, ctl, hist>>
    /\ UNCHANGED <<calc, other>>

StepperNext ==
    \/ CallStep
    \/ CallPrecompute
    \/ CallGetPrecomputed
    \/ ClientAwaitDone
    \/ CallStop
    \/ ComputeDone

StepperSpec == Init /\ [][StepperNext]_vars

\* A client that only calls step(), again and again.
StepNext == CallStep

StepSpec == Init /\ [][StepNext]_vars

\* The pipelined use of the stepper: step() once for the t=0 frame, then
\* precompute_next_frame() and get_precomputed_frame() in turn.
PipeFirstStep ==
    /\ ret.op = "none"
    /\ CallStep

PipePrecompute ==
    /\ ret.op \in {"step", "get_precomputed_frame"}
    /\ CallPrecompute

PipeGetPrecomputed ==
    /\ ret.op = "precompute_next_frame"
    /\ CallGetPrecomputed

PipeNext ==
    \/ PipeFirstStep
    \/ PipePrecompute
    \/ PipeGetPrecomputed
    \/ ClientAwaitDone
    \/ ComputeDone

PipeSpec == Init /\ [][PipeNext]_vars

\* ------------------------------------------------- two tasks in the storage
\* simulation_id of the two tasks.
TaskIds == {1, 2}

\* The task the variables task, stepper, pc, frame, ctl and hist stand for.
Focus == IF other.id = 1 THEN 2 ELSE 1

\* The time_config of the two tasks: a bounded task with a retention time
\* and an unbounded one that keeps every frame.
PairTimeConfig(id) ==
    IF id = 1
    THEN [dt_backend |-> 1, T_total |-> 2, cache_retention_time |-> 1]
    ELSE [dt_backend |-> MaxDt, T_total |-> Unset, cache_retention_time |-> Unset]

\* Two create requests have been answered: both tasks are RUNNING and their
\* driving coroutines are scheduled.
PairInit ==
    /\ task = update_task_status(NewTask("PM", PairTimeConfig(1)), "running")
    /\ stepper = NewStepper(PairTimeConfig(1))
    /\ pc = "start"
    /\ frame = None
    /\ resp = NoResponse
    /\ ret = [op |-> "none", val |-> None, after_stop |-> FALSE]
    /\ ctl = [phase |-> "none", last_pre |-> 0, first_post |-> 0]
    /\ calc = NoCall
    /\ hist = [pipelined |-> FALSE, declined |-> FALSE, raised |-> FALSE,
               repeated |-> FALSE, request |-> NoRequest]
    /\ other = [id |-> 2,
                task |-> update_task_status(NewTask("PM", PairTimeConfig(2)), "running"),
                stepper |-> NewStepper(PairTimeConfig(2)),
                pc |-> "start", frame |-> None, ctl |-> ctl, hist |-> hist]

\* The event loop turns to the other task: its coroutine is resumed, or a
\* request with its simulation_id is served.  Coroutines give way only at
\* their suspension points.
Switch ==
    /\ other # NoOther
    /\ AtSuspension
    /\ task' = other.task
    /\ stepper' = other.stepper
    /\ pc' = other.pc
    /\ frame' = other.frame
    /\ ctl' = other.ctl
    /\ hist' = other.hist
    /\ other' = [id |-> Focus, task |-> task, stepper |-> stepper, pc |-> pc,
                 frame |-> frame, ctl |-> ctl, hist |-> hist]
    /\ UNCHANGED <<resp, ret, calc>>

PairNext ==
    \/ Next
    \/ Switch

PairSpec == PairInit /\ [][PairNext]_vars

\* ------------------------------------------------------- the grid builder
Max(a, b) == IF a >= b THEN a ELSE b

\* Regions that pass Region's validators and DiscretizationConfig values that
\* pass its Field constraints (dx > 0, dy > 0, max_points >= 1).  With dy
\* larger than the latitude extent the lattice has one row.
GridRegions ==
    [lon_min : {0}, lon_max : 1..MaxExtent, lat_min : {0}, lat_max : 1..MaxExtent]

DiscretizationConfigs ==
    [dx : 1..MaxStep, dy : 1..MaxStep, max_points : 1..MaxPoints]

\* int(n * math.sqrt(max_points / total_points)) with the scale inverted.
int_scaled_inverted(n, max_points, total_points) ==
    CHOOSE k \in 0..(n * total_points) :
        /\ k * k * max_points <= n * n * total_points
        /\ (k + 1) * (k + 1) * max_points > n * n * total_points

\* int(n * math.sqrt(max_points / total_points)): the largest k with
\* k^2 <= n^2 * max_points / total_points.
int_scaled(n, max_points, total_points) ==
    CHOOSE k \in 0..n :
        /\ k * k * total_points <= n * n * max_points
        /\ (k + 1) * (k + 1) * total_points > n * n * max_points

\* create_grid: the list of grid points, one per (lat, lon) pair of the
\* n_lat x n_lon lattice, latitude-major; a point is named by its indices
\* into lat_values and lon_values.
create_grid(region, config) ==
    LET lon_range == region.lon_max - region.lon_min
        lat_range == region.lat_max - region.lat_min
        n_lon0 == Max(1, (lon_range \div config.dx) + 1)
        n_lat0 == Max(1, (lat_range \div config.dy) + 1)
        total_points == n_lon0 * n_lat0
        scaled == total_points > config.max_points
        n_lon == IF scaled
                 THEN Max(1, int_scaled(n_lon0, config.max_points, total_points))
                 ELSE n_lon0
        n_lat == IF scaled
                 THEN Max(1, int_scaled(n_lat0, config.max_points, total_points))
                 ELSE n_lat0
    IN  [i \in 1..(n_lon * n_lat) |->
            [lat |-> (i - 1) \div n_lon, lon |-> (i - 1) % n_lon]]

\* A direct call of create_grid.
CallCreateGrid ==
    /\ calc.op = "none"
    /\ \E region \in GridRegions, config \in DiscretizationConfigs :
          calc' = [op |-> "create_grid", region |-> region, config |-> config,
                   grid_points |-> create_grid(region, config)]
    /\ UNCHANGED <<task, stepper, pc, frame, resp, ret, ctl, hist, other>>

GridNext == CallCreateGrid

\* create_grid needs no task: the calls start from the empty registry.
GridSpec == CreateInit /\ [][GridNext]_vars

\* -------------------------------------------------------- the point query
\* Heights are kept symbolic: the stored height of the grid point (lon, lat) in
\* the frame of a time, a value interpolated between two frames, and an
\* inverse-distance mean over several grid points are different values of a
\* generic wave field.
Height(lon, lat, time) == [kind |-> "stored", lon |-> lon, lat |-> lat, time |-> time]

\* np.zeros: the entry of a grid point that a frame does not hold.
ZeroHeight == [kind |-> "zero"]

RECURSIVE Factorial(_)
Factorial(n) == IF n <= 1 THEN 1 ELSE n * Factorial(n - 1)

\* The queried region, in units that keep every lattice coordinate and the
\* region's centre whole for lattices of up to MaxSide columns and rows.
LatticeExtent == 2 * Factorial(MaxSide - 1)

PointRegion ==
    [lon_min |-> 0, lon_max |-> LatticeExtent, lat_min |-> 0, lat_max |-> LatticeExtent]

\* np.linspace(start, stop, num); stop_ is its stop.
linspace(start, stop_, num) ==
    [i \in 1..num |->
        IF num = 1 THEN start ELSE start + ((stop_ - start) * (i - 1)) \div (num - 1)]

\* lonlat_to_xy: the offset from the origin.  The metres per degree, a factor
\* that hardly varies over a region, are taken as the unit.
lonlat_to_xy(lon, lat, origin_lon, origin_lat) ==
    [x |-> lon - origin_lon, y |-> lat - origin_lat]

\* for lat in lat_values: for lon in lon_values: GridPoint(x, y, lon, lat).
LatticePoints(lon_values, lat_values, origin_lon, origin_lat) ==
    [i \in 1..(Len(lon_values) * Len(lat_values)) |->
        LET lat == lat_values[((i - 1) \div Len(lon_values)) + 1]
            lon == lon_values[((i - 1) % Len(lon_values)) + 1]
            xy == lonlat_to_xy(lon, lat, origin_lon, origin_lat)
        IN  [x |-> xy.x, y |-> xy.y, lon |-> lon, lat |-> lat]]

\* The grid points create_grid generates for an n_lat x n_lon lattice: local
\* coordinates are taken from the centre of the region.
create_grid_points(region, n_lon, n_lat) ==
    LatticePoints(linspace(region.lon_min, region.lon_max, n_lon),
                  linspace(region.lat_min, region.lat_max, n_lat),
                  (region.lon_min + region.lon_max) \div 2,
                  (region.lat_min + region.lat_max) \div 2)

\* _create_frame with the points spelled out: one WavePoint per grid point.
_create_frame_points(time, grid_points) ==
    [time |-> time,
     points |-> [i \in DOMAIN grid_points |->
                    [lon |-> grid_points[i].lon, lat |-> grid_points[i].lat,
                     wave_height |-> Height(grid_points[i].lon, grid_points[i].lat, time)]]]

\* The frames a task caches: frame k at time (k - 1) * dt.
CachedFrames(grid_points, n_frames, dt) ==
    [k \in 1..n_frames |-> _create_frame_points((k - 1) * dt, grid_points)]

\* create_wave_grid: the dense grid over create_grid's points.
create_wave_grid(region, n_lon, n_lat, n_frames, dt) ==
    LET grid_points == create_grid_points(region, n_lon, n_lat)
        times == [k \in 1..n_frames |-> (k - 1) * dt]
    IN  [grid_points |-> grid_points,
         wave_heights |-> [k \in 1..n_frames |->
                              [i \in DOMAIN grid_points |->
                                  Height(grid_points[i].lon, grid_points[i].lat, times[k])]],
         times |-> times]

\* sorted(set(...)).
SortedSeq(S) ==
    CHOOSE q \in [1..Cardinality(S) -> S] :
        \A i, j \in 1..Cardinality(S) : i < j => q[i] < q[j]

\* _build_wave_grid_from_frames: the dense grid rebuilt from cached frames;
\* local coordinates are taken from the lower-left corner of the region.
_build_wave_grid_from_frames(frames, region) ==
    IF frames = <<>> THEN "None"
    ELSE
      LET first_frame == frames[1]
          lons == SortedSeq({first_frame.points[i].lon : i \in DOMAIN first_frame.points})
          lats == SortedSeq({first_frame.points[i].lat : i \in DOMAIN first_frame.points})
          origin_lon == region.lon_min
          origin_lat == region.lat_min
          grid_points == LatticePoints(lons, lats, origin_lon, origin_lat)
          frame_dict(fr, lon, lat) ==
              {i \in DOMAIN fr.points : fr.points[i].lon = lon /\ fr.points[i].lat = lat}
      IN  [grid_points |-> grid_points,
           wave_heights |->
               [k \in DOMAIN frames |->
                   [i \in DOMAIN grid_points |->
                       LET key == frame_dict(frames[k], grid_points[i].lon, grid_points[i].lat)
                       IN  IF key # {}
                           THEN frames[k].points[CHOOSE j \in key : TRUE].wave_height
                           ELSE ZeroHeight]],
           times |-> [k \in DOMAIN frames |-> frames[k].time]]

\* linear_interpolation.
linear_interpolation(t, t1, v1, t2, v2) ==
    IF t2 = t1 THEN v1
    ELSE [kind |-> "interpolated", t |-> t, v1 |-> v1, v2 |-> v2]

\* Squared distance: it orders the points as the distance does.
Distance2(p, x, y) == (p.x - x) * (p.x - x) + (p.y - y) * (p.y - y)

\* bilinear_interpolation taking the value of the first grid point, whatever
\* the query position.
bilinear_interpolation_first(x, y, grid_points, values) == values[1]

\* bilinear_interpolation.  Below four grid points: the value of the nearest
\* one, the first of equally near ones (np.argmin).  Otherwise the mean of
\* the four nearest points weighted by 1 / (distance + 1e-10): a point at
\* distance 0 has weight 1e10 and the mean is its value within tolerance;
\* with no such point it is a blend of four values.  argsort's order among
\* equally distant points is left to CHOOSE.
bilinear_interpolation(x, y, grid_points, values) ==
    LET n == Len(grid_points)
        distances == [i \in 1..n |-> Distance2(grid_points[i], x, y)]
    IN  IF n < 4
        THEN LET idx == CHOOSE i \in 1..n :
                            /\ \A j \in 1..n : distances[i] <= distances[j]
                            /\ \A j \in 1..(i - 1) : distances[j] > distances[i]
             IN  values[idx]
        ELSE LET nearest_indices ==
                     CHOOSE S \in SUBSET (1..n) :
                         /\ Cardinality(S) = 4
                         /\ \A i \in S, j \in (1..n) \ S : distances[i] <= distances[j]
             IN  IF \E i \in nearest_indices : distances[i] = 0
                 THEN values[CHOOSE i \in nearest_indices : distances[i] = 0]
                 ELSE [kind |-> "weighted",
                       values |-> {values[i] : i \in nearest_indices}]

\* np.mean over the grid points.
Mean(q) ==
    LET RECURSIVE Sum(_)
        Sum(k) == IF k = 0 THEN 0 ELSE q[k] + Sum(k - 1)
    IN  Sum(Len(q)) \div Len(q)

\* query_point.
query_point(wave_grid, lon, lat, time) ==
    LET times == wave_grid.times
        n == Len(times)
        t == IF time < times[1] THEN times[1]
             ELSE IF time > times[n] THEN times[n] ELSE time
        \* np.searchsorted, counted from 0
        time_idx == Cardinality({k \in 1..n : times[k] < t})
        values ==
            IF time_idx < n /\ times[time_idx + 1] = t
            THEN wave_grid.wave_heights[time_idx + 1]
            ELSE IF time_idx = 0 THEN wave_grid.wave_heights[1]
            ELSE IF time_idx >= n THEN wave_grid.wave_heights[n]
            ELSE [i \in DOMAIN wave_grid.grid_points |->
                     linear_interpolation(t, times[time_idx],
                                          wave_grid.wave_heights[time_idx][i],
                                          times[time_idx + 1],
                                          wave_grid.wave_heights[time_idx + 1][i])]
        origin_lon == Mean([i \in DOMAIN wave_grid.grid_points |-> wave_grid.grid_points[i].lon])
        origin_lat == Mean([i \in DOMAIN wave_grid.grid_points |-> wave_grid.grid_points[i].lat])
        xy == lonlat_to_xy(lon, lat, origin_lon, origin_lat)
    IN  bilinear_interpolation(xy.x, xy.y, wave_grid.grid_points, values)

\* A point query at a grid point of a lattice, on the dense grid that
\* create_wave_grid builds or on the one that query_wave_at_point rebuilds
\* from the cached frames.
CallQueryPoint ==
    /\ calc.op = "none"
    /\ \E n_lon \in 1..MaxSide, n_lat \in 1..MaxSide, n_frames \in 1..MaxFrames,
          dt \in DtChoices, rebuilt \in BOOLEAN :
          LET grid_points == create_grid_points(PointRegion, n_lon, n_lat)
              frames == CachedFrames(grid_points, n_frames, dt)
              wave_grid == IF rebuilt
                           THEN _build_wave_grid_from_frames(frames, PointRegion)
                           ELSE create_wave_grid(PointRegion, n_lon, n_lat, n_frames, dt)
          IN  \E p \in DOMAIN grid_points, time \in 0..((n_frames - 1) * dt) :
                  calc' = [op |-> "query_point", rebuilt |-> rebuilt,
                           frames |-> frames,
                           lon |-> grid_points[p].lon, lat |-> grid_points[p].lat,
                           time |-> time,
                           wave_height |-> query_point(wave_grid, grid_points[p].lon,
                                                       grid_points[p].lat, time)]
    /\ UNCHANGED <<task, stepper, pc, frame, resp, ret, ctl, hist, other>>

PointNext == CallQueryPoint

PointSpec == CreateInit /\ [][PointNext]_vars

\* ---------------------------------------------------------- the wave field
\* Angles are counted in quarter turns, so that the cosine is exact:
\* cos(n * pi / 2) is 1, 0, -1, 0 for n = 0, 1, 2, 3 modulo 4.
cos(n) == CASE n % 4 = 0 -> 1 [] n % 4 = 1 -> 0 [] n % 4 = 2 -> -1 [] OTHER -> 0

\* math.sin of a direction of 0 or 90 degrees, math.cos of it.
sin_deg(direction_deg) == IF direction_deg = 90 THEN 1 ELSE 0
cos_deg(direction_deg) == IF direction_deg = 90 THEN 0 ELSE 1

\* WaveComponent; frequency is in quarter turns per second, so that
\* omega = 2 * pi * frequency is the frequency field in the angle unit.
WaveComponents ==
    [frequency : {1, 2}, direction_deg : {0, 90}, amplitude : {1, 2},
     phase : {0, 1}, wave_number : {1}]

ReferenceComponent ==
    [frequency |-> 1, direction_deg |-> 90, amplitude |-> 1, phase |-> 0,
     wave_number |-> 1]

\* WaveSpectrum.components: one component, or one after the reference one.
Spectra ==
    {<<c>> : c \in WaveComponents} \cup {<<ReferenceComponent, c>> : c \in WaveComponents}

\* The grids the field is evaluated on: one row of create_grid's points.
FieldGrids == {create_grid_points(PointRegion, n_lon, 1) : n_lon \in 1..MaxSide}

\* component.amplitude * math.cos(k_dot_r - omega * time + component.phase)
Contribution(component, point, time) ==
    LET k == component.wave_number
        kx == k * sin_deg(component.direction_deg)
        ky == k * cos_deg(component.direction_deg)
        omega == component.frequency
        k_dot_r == kx * point.x + ky * point.y
    IN  component.amplitude * cos(k_dot_r - omega * time + component.phase)

\* for component in spectrum.components: for i, point: heights[i] += ...
Accumulate(heights, spectrum, grid_points, time) ==
    LET RECURSIVE Upto(_, _)
        Upto(i, c) == IF c = 0 THEN heights[i]
                      ELSE Upto(i, c - 1) + Contribution(spectrum[c], grid_points[i], time)
    IN  [i \in DOMAIN grid_points |-> Upto(i, Len(spectrum))]

\* np.zeros(n_points)
zeros(grid_points) == [i \in DOMAIN grid_points |-> 0]

\* initialize_wave_field / _initialize_wave_field: the field at omega * 0.0.
initialize_wave_field(spectrum, grid_points) ==
    Accumulate(zeros(grid_points), spectrum, grid_points, 0)

\* Faulty variant of advance_wave_field: the contributions are added to the
\* array passed in.
advance_wave_field_accumulating(wave_height, spectrum, grid_points, dt, current_time) ==
    Accumulate(wave_height, spectrum, grid_points, current_time + dt)

\* advance_wave_field / _advance_wave_field: new_wave_height starts from
\* zeros and takes the contributions at current_time + dt; wave_height is
\* not read.
advance_wave_field(wave_height, spectrum, grid_points, dt, current_time) ==
    Accumulate(zeros(grid_points), spectrum, grid_points, current_time + dt)

\* SimulationStepper.__init__: the spectrum, the grid and the t=0 field.
FieldInitialize ==
    /\ calc.op = "none"
    /\ \E spectrum \in Spectra, grid_points \in FieldGrids :
          calc' = [op |-> "initialize_wave_field", spectrum |-> spectrum,
                   grid_points |-> grid_points,
                   wave_height |-> initialize_wave_field(spectrum, grid_points)]
    /\ UNCHANGED <<task, stepper, pc, frame, resp, ret, ctl, hist, other>>

\* step() with the heights spelled out: a step past the initial frame
\* replaces current_wave_height by _advance_wave_field of it.
FieldStep ==
    /\ calc.op # "none"
    /\ LET st == step(stepper) IN
       /\ st.s.current_time <= MaxTime
       /\ stepper' = st.s
       /\ ret' = Returned("step", st.r, stepper)
       /\ other' = other
       /\ calc' = IF st.r # None /\ stepper.current_time_idx > 0
                  THEN [calc EXCEPT
                           !.op = "advance_wave_field",
                           !.wave_height =
                               advance_wave_field(calc.wave_height, calc.spectrum,
                                                  calc.grid_points, stepper.dt,
                                                  stepper.current_time)]
                  ELSE calc
    /\ UNCHANGED <<task, pc, frame, resp, ctl, hist>>

FieldNext ==
    \/ FieldInitialize
    \/ FieldStep

FieldSpec == Init /\ [][FieldNext]_vars

\* ----------------------------------------------------------------- claims
StrictlyIncreasing(frames) ==
    \A i \in 1..(Len(frames) - 1) : frames[i].time < frames[i + 1].time

\* C1: in every state the task's frame list is strictly increasing in time.
C1_FramesStrictlyIncreasing == StrictlyIncreasing(task.frames)

\* C1 witness: a query can see a list of several frames whose oldest frames
\* were evicted.
C1_Witness ==
    /\ AtSuspension
    /\ Len(task.frames) >= 2
    /\ task.frames[1].time > 0

\* C2: after a pause request on a running task and a later resume request,
\* the first frame appended is exactly one dt after the last frame that was
\* in the list when the pause was requested.
C2_PauseResumeContinues ==
    ctl.phase = "continued" => ctl.first_post = ctl.last_pre + stepper.dt

\* C3: once the loop has exited after a stop request, the frame list is
\* empty, wave_grid is None and the status is STOPPED.
C3_StopClearsAndMarksStopped ==
    (task.stop_requested /\ pc = "exited")
        => /\ task.frames = <<>>
           /\ task.wave_grid = "None"
           /\ task.status = "stopped"

\* C4: once the loop has called stepper.stop() it has left the loop and the
\* frame list holds no frame: nothing is appended after the stop is observed,
\* and a frame the loop was holding is not in the list.
C4_NoAppendAfterStop ==
    stepper.is_stopped => (pc = "exited" /\ task.frames = <<>>)

\* C4 witness: the stop was observed after the pacing sleep, with a collected
\* frame in hand.
C4_Witness ==
    /\ stepper.is_stopped
    /\ pc = "exited"
    /\ frame # None
    /\ task.frames = <<>>

StopHandled ==
    /\ pc = "exited"
    /\ stepper.is_stopped
    /\ task.frames = <<>>
    /\ task.status = "stopped"

\* C5: stop_requested is never reset, and a requested stop leads to the loop
\* calling stepper.stop(), cleaning up and exiting with status STOPPED (or the
\* model's time bound is reached first).
C5_StopNeverLost ==
    /\ [][task.stop_requested => task'.stop_requested]_vars
    /\ task.stop_requested ~> (StopHandled \/ ~WithinBound(stepper))

\* The append branch of the re-check is about to run.
Appending ==
    /\ pc = "recheck"
    /\ ~task.stop_requested
    /\ ~task.clock_paused
    /\ frame # None

\* C6: after the append of a frame at time T the frame is the last of the
\* list and, with retention R, no frame of the list is older than T - R.
C6_RetentionEviction ==
    [][Appending =>
          /\ task'.frames # <<>>
          /\ Last(task'.frames) = frame
          /\ task.time_config.cache_retention_time # Unset =>
                \A i \in 1..Len(task'.frames) :
                    task'.frames[i].time
                        >= frame.time - task.time_config.cache_retention_time
      ]_vars

\* C6 witness: with R smaller than dt only the frame just appended is left.
C6_Witness ==
    /\ pc = "top"
    /\ task.time_config.cache_retention_time # Unset
    /\ task.time_config.cache_retention_time < task.time_config.dt_backend
    /\ Len(task.frames) = 1
    /\ task.frames[1].time > 0
    /\ task.frames[1] = frame

\* A frame or point query has just been answered.
QueryAnswered == resp' # resp /\ resp'.op \in {"frames", "point"}

\* C7: with retention R and a cached frame, a query for a time t other than
\* the sentinel is answered 410 exactly when t < latest_time - R; without
\* retention no query is answered 410.
C7_ExpiredExactlyBeforeWindow ==
    [][QueryAnswered =>
          LET R == task.time_config.cache_retention_time IN
          /\ (R # Unset /\ task.frames # <<>> /\ resp'.t # LATEST) =>
                (resp'.code = 410
                    <=> resp'.t < task.frames[Len(task.frames)].time - R)
          /\ R = Unset => resp'.code # 410
      ]_vars

\* C7 witness: a point query was answered 410 and the cache still holds
\* frames, all of them later than the time asked for.
C7_Witness ==
    /\ resp.op = "point"
    /\ resp.code = 410
    /\ task.frames # <<>>
    /\ resp.t >= 0
    /\ resp.t < task.frames[1].time

\* C8: a step() or get_precomputed_frame() call made after stop() returns,
\* and returns None.
C8_NoneAfterStop ==
    (ret.after_stop /\ ret.op \in {"step", "get_precomputed_frame"})
        => ret.val = None

\* C9: a step() call that returns a frame returns t=0 and leaves current_time
\* alone when it is the first, and otherwise returns current_time + dt and
\* advances current_time by dt; with step() alone driving the stepper the
\* k-th later call returns k*dt.
C9_StepAdvancesOneDt ==
    [][(CallStep /\ ret'.val # None) =>
          /\ IF stepper.current_time_idx = 0
             THEN /\ ret'.val.time = 0
                  /\ stepper'.current_time = stepper.current_time
             ELSE /\ ret'.val.time = stepper.current_time + stepper.dt
                  /\ stepper'.current_time = stepper.current_time + stepper.dt
          /\ ~hist.pipelined =>
                ret'.val.time = stepper.current_time_idx * stepper.dt
      ]_vars

\* C9 witness: the second later step() of a stepper driven by step() alone.
C9_Witness ==
    /\ ret.op = "step"
    /\ ret.val # None
    /\ ~hist.pipelined
    /\ stepper.current_time_idx = 3
    /\ ret.val.time = 2 * stepper.dt

\* C10: step() on a completed stepper returns None and changes neither
\* current_time, current_time_idx nor current_wave_height.
C10_StepAfterCompletion ==
    [][(CallStep /\ stepper.is_completed) =>
          /\ ret'.val = None
          /\ stepper'.current_time = stepper.current_time
          /\ stepper'.current_time_idx = stepper.current_time_idx
          /\ stepper'.current_wave_height = stepper.current_wave_height
      ]_vars

\* C10 witness: step() was called on a stepper completed by its time limit.
C10_Witness ==
    /\ ret.op = "step"
    /\ ret.val = None
    /\ stepper.is_completed
    /\ ~stepper.is_stopped
    /\ stepper.current_time > 0

\* get_precomputed_frame() is taking the result of a finished evaluation.
Collecting ==
    \/ CallGetPrecomputed /\ stepper.next_frame_future.st = "done"
    \/ ClientAwaitDone

\* The finished evaluation was made from the committed state as it is now.
FreshResult == stepper.next_frame_future.result = compute_frame(stepper)

\* What a call emits at next = current_time + dt under the limit L.
EmitsUpToLimit(s, val, s_after) ==
    LET L == s.time_limit
        next == s.current_time + s.dt
    IN IF L = Unset
       THEN val # None /\ val.time = next /\ ~s_after.is_completed
       ELSE /\ val # None <=> next <= L
            /\ val # None => (val.time = next /\ (s_after.is_completed <=> next = L))
            /\ val = None => s_after.is_completed

\* C11: on a stepper that is neither completed nor stopped, step() (after the
\* initial frame) and the collection of a precomputed frame return the frame
\* at next = current_time + dt exactly when next <= L; a step beyond L
\* returns None and sets is_completed, and the frame at L is returned as a
\* frame together with is_completed becoming true.
C11_LimitBoundary ==
    [][/\ (CallStep /\ ~stepper.is_completed /\ ~stepper.is_stopped
                 /\ stepper.current_time_idx > 0)
           => EmitsUpToLimit(stepper, ret'.val, stepper')
       /\ (Collecting /\ ~stepper.is_completed /\ ~stepper.is_stopped
                 /\ FreshResult)
           => EmitsUpToLimit(stepper, ret'.val, stepper')
      ]_vars

\* C11 witness: the pipeline returned the frame at exactly the time limit and
\* the stepper is completed by it.
C11_Witness ==
    /\ ret.op = "get_precomputed_frame"
    /\ ret.val.kind = "frame"
    /\ stepper.time_limit # Unset
    /\ ret.val.time = stepper.time_limit
    /\ stepper.current_time = stepper.time_limit
    /\ stepper.is_completed
    /\ ~stepper.is_stopped

\* The stepper's committed state.
Committed(s) == <<s.current_time, s.current_wave_height, s.current_time_idx>>

\* C12: neither the scheduling of a precomputation nor the finishing of its
\* background evaluation changes current_time, current_wave_height or
\* current_time_idx; the result waits in the future until it is collected.
C12_PrecomputeKeepsCommitted ==
    [][(CallPrecompute \/ ComputeDone)
           => Committed(stepper') = Committed(stepper)]_vars

\* C12 witness: an evaluation has finished with the frame for
\* current_time + dt and is not collected; the committed state is still the
\* one it was scheduled from.
C12_Witness ==
    /\ stepper.next_frame_future.st = "done"
    /\ stepper.next_frame_future.result.kind = "frame"
    /\ stepper.current_time > 0
    /\ stepper.next_frame_future.result.time = stepper.current_time + stepper.dt
    /\ stepper.current_wave_height = stepper.current_time
    /\ ret.op = "precompute_next_frame"

\* C13: when get_precomputed_frame() returns a frame at time t, current_time
\* is t and current_time_idx has grown by one; a stepper that is completed or
\* stopped then holds no future, and any other holds exactly one pending
\* future whose evaluation is the one for t + dt.
C13_CommitAndReschedule ==
    [][(Collecting /\ ret'.val.kind = "frame") =>
          LET t == ret'.val.time
              following == compute_frame(stepper')
          IN /\ stepper'.current_time = t
             /\ stepper'.current_wave_height = ret'.val.wave_height
             /\ stepper'.current_time_idx = stepper.current_time_idx + 1
             /\ IF stepper'.is_completed \/ stepper'.is_stopped
                THEN stepper'.next_frame_future = NoFuture
                ELSE /\ stepper'.next_frame_future = PendingFuture
                     /\ following # None => following.time = t + stepper.dt
                     /\ following = None =>
                            (stepper.time_limit # Unset
                                /\ t + stepper.dt > stepper.time_limit)
      ]_vars

\* C13 witness: a second frame was collected from the pipeline and the
\* evaluation of the one after it is pending.
C13_Witness ==
    /\ ret.op = "get_precomputed_frame"
    /\ ret.val.kind = "frame"
    /\ stepper.current_time = ret.val.time
    /\ stepper.current_time >= 2 * stepper.dt
    /\ ~stepper.is_completed
    /\ stepper.next_frame_future = PendingFuture

\* C14: a stepper never has more than one evaluation in flight, and a
\* precompute_next_frame() call made while the scheduled evaluation has not
\* finished changes nothing: the same future stays pending and no evaluation
\* is started.
C14_SingleSlot ==
    /\ [](stepper.in_flight <= 1)
    /\ [][(CallPrecompute
             /\ stepper.next_frame_future.st \in {"pending", "orphaned"})
           => stepper' = stepper]_vars

\* C14 witness: precompute_next_frame() was called on a live stepper while an
\* evaluation was in flight, and that one evaluation is still the only one.
C14_Witness ==
    /\ hist.declined
    /\ ret.op = "precompute_next_frame"
    /\ stepper.next_frame_future = PendingFuture
    /\ stepper.in_flight = 1

\* The task lifecycle.  A task is created PENDING and set RUNNING before the
\* create call returns, so a client sees it appear as RUNNING.
Lifecycle(from, to) ==
    \/ from \in {"absent", "pending"} /\ to = "running"
    \/ from = "running" /\ to = "paused"
    \/ from = "paused" /\ to = "running"
    \/ /\ from \in {"pending", "running", "paused"}
       /\ to \in {"stopped", "completed", "failed"}

\* C15: every change of the task's status, by a handler or by the driving
\* loop, is a step of the lifecycle; a status of STOPPED, COMPLETED or FAILED
\* never changes again.
C15_StatusLifecycle ==
    [][task'.status # task.status
           => Lifecycle(task.status, task'.status)]_vars

\* C15 witness: the loop completed the task and a control request arrived at
\* the finished task.
C15_Witness ==
    /\ task.status = "completed"
    /\ pc = "exited"
    /\ task.frames # <<>>
    /\ resp.op \in {"pause", "resume", "stop", "stop_all"}

\* C16: once a background evaluation has raised and the driving loop has
\* ended, the task's status is FAILED.
C16_ExceptionMarksFailed ==
    (hist.raised /\ pc = "exited") => task.status = "failed"

\* C17: the step that makes a task FAILED leaves its frame list as it was;
\* a non-empty frame list is emptied only together with the status STOPPED;
\* and stop_simulation on a FAILED or COMPLETED task changes nothing of it.
C17_FailedKeepsFrames ==
    [][/\ (task.status # "failed" /\ task'.status = "failed")
           => task'.frames = task.frames
       /\ (task.frames # <<>> /\ task'.frames = <<>>)
           => task'.status = "stopped"
       /\ (stop_simulation /\ task.status \in {"failed", "completed"})
           => task' = task
      ]_vars

\* What the control operations act on.
ControlState(t) == <<t.status, t.clock_paused, t.stop_requested>>

\* C18: a pause, resume or stop request that follows a request of the same
\* kind changes neither status, clock_paused nor stop_requested; on a task in
\* a terminal status pause and resume change nothing, and stop changes at
\* most frames and wave_grid, and those only of a STOPPED task.
C18_ControlIdempotent ==
    [][/\ (pause_simulation_clock /\ resp.op = "pause")
           => ControlState(task') = ControlState(task)
       /\ (resume_simulation_clock /\ resp.op = "resume")
           => ControlState(task') = ControlState(task)
       /\ (stop_simulation /\ resp.op = "stop")
           => ControlState(task') = ControlState(task)
       /\ ((pause_simulation_clock \/ resume_simulation_clock)
              /\ task.status \in {"stopped", "completed", "failed"})
           => task' = task
       /\ (stop_simulation
              /\ task.status \in {"stopped", "completed", "failed"})
           => /\ ControlState(task') = ControlState(task)
              /\ task.status # "stopped" => task' = task
              /\ task.status = "stopped" => task' = _cleanup_task_resources(task)
      ]_vars

\* C18 witness: a pause request followed a pause request on a task that is
\* still running and holds frames.
C18_Witness ==
    /\ hist.repeated
    /\ resp.op = "pause"
    /\ task.status = "running"
    /\ Len(task.frames) >= 2
    /\ pc # "exited"

\* C19: on a task that is not in a terminal status a pause request is
\* answered 200 with status 'paused' and sets it, a resume request is
\* answered 200 with status 'running' and sets it, and a stop request is
\* answered 200 with status 'stopped' and sets it.
C19_ControlSucceeds ==
    [][/\ (pause_simulation_clock /\ task.status = "running")
           => /\ resp'.code = 200
              /\ resp'.status = "paused"
              /\ task'.status = "paused"
       /\ (resume_simulation_clock /\ task.status \in {"running", "paused"})
           => /\ resp'.code = 200
              /\ resp'.status = "running"
              /\ task'.status = "running"
       /\ (stop_simulation /\ task.status \in {"running", "paused"})
           => /\ resp'.code = 200
              /\ resp'.status = "stopped"
              /\ task'.status = "stopped"
      ]_vars

\* C20: a create request for a spectrum model other than Pierson-Moskowitz
\* registers no task and starts no driving loop: every task there is, and
\* every 201 answer of the create call, is for the PM model.
C20_UnsupportedModelFailsAtCreation ==
    (task.status # "absent" \/ pc # "absent")
        => task.spectrum_model_type = "PM"

\* C21: a create request whose region has lon_max <= lon_min or
\* lat_max <= lat_min, or whose dt_backend <= 0, cache_retention_time <= 0 or
\* T_total <= 0 other than -1, is not answered 201, registers no task and
\* starts no loop; an accepted request with T_total -1 or None gives a task
\* without time limit, and any other accepted T_total is the task's limit.
C21_InvalidConfigRejected ==
    [][create_area_simulation =>
          LET q == hist'.request
              T == q.time.T_total
              R == q.time.cache_retention_time
              unbounded == ~T.given \/ T.value = -1
              invalid == \/ q.region.lon_max <= q.region.lon_min
                         \/ q.region.lat_max <= q.region.lat_min
                         \/ q.time.dt_backend <= 0
                         \/ R.given /\ R.value <= 0
                         \/ ~unbounded /\ T.value <= 0
          IN /\ invalid => /\ resp'.code # 201
                           /\ task' = NoTask
                           /\ pc' = "absent"
             /\ resp'.code = 201 =>
                    task'.time_config.T_total
                        = IF unbounded THEN Unset ELSE T.value
      ]_vars

\* C21 witness: a request that is valid but for T_total = -2 was rejected
\* and there is no task.
C21_Witness ==
    /\ resp.op = "create"
    /\ resp.code = 422
    /\ hist.request.time.T_total = [given |-> TRUE, value |-> -2]
    /\ hist.request.time.dt_backend > 0
    /\ ~hist.request.time.cache_retention_time.given
    /\ hist.request.region.lon_max > hist.request.region.lon_min
    /\ hist.request.region.lat_max > hist.request.region.lat_min
    /\ hist.request.spectrum_model_type = "PM"
    /\ task = NoTask
    /\ pc = "absent"

\* C22: a frame or point query is answered 404 exactly when there is no task
\* of that id or the task has neither frames nor a dense grid, and it leaves
\* the task as it is.
C22_NotFoundExactlyWhenEmpty ==
    [][QueryAnswered =>
          /\ resp'.code = 404
                <=> \/ task.status = "absent"
                    \/ task.frames = <<>> /\ task.wave_grid = "None"
          /\ task' = task
      ]_vars

\* C22 witness: a point query for a time that was cached was answered 404
\* after the stop cleanup emptied the task.
C22_Witness ==
    /\ resp.op = "point"
    /\ resp.code = 404
    /\ resp.t > 0
    /\ stepper.current_time >= resp.t
    /\ task.stop_requested
    /\ pc = "exited"
    /\ task.frames = <<>>

\* The frame list is exactly the frames at 0, dt, ..., N*dt, N = floor(L/dt).
ExactFrames(frames, dt, L) ==
    /\ Len(frames) = (L \div dt) + 1
    /\ \A k \in 1..Len(frames) :
          /\ frames[k].kind = "frame"
          /\ frames[k].time = (k - 1) * dt
          /\ frames[k].wave_height = (k - 1) * dt

\* C23: a task with a time limit L that gets no control request reaches
\* status COMPLETED with its loop ended, and whenever it is COMPLETED with
\* the loop ended and no retention is configured its frame list is exactly
\* the frames at 0, dt, ..., N*dt with N the largest integer N*dt <= L.
C23_BoundedRunCompletes ==
    /\ (task.time_config.T_total # Unset)
           ~> (task.status = "completed" /\ pc = "exited")
    /\ []((/\ task.status = "completed"
            /\ pc = "exited"
            /\ task.time_config.cache_retention_time = Unset)
           => ExactFrames(task.frames, task.time_config.dt_backend,
                          task.time_config.T_total))

\* C23 witness: a task whose limit is not a multiple of dt is COMPLETED with
\* its loop ended and holds several frames.
C23_Witness ==
    /\ task.status = "completed"
    /\ pc = "exited"
    /\ task.time_config.cache_retention_time = Unset
    /\ task.time_config.T_total % task.time_config.dt_backend # 0
    /\ Len(task.frames) >= 2
    /\ Last(task.frames).time < task.time_config.T_total

\* No frame is removed, the dense grid is kept and no evaluation is
\* cancelled.
Preserved ==
    /\ \A i \in 1..Len(task.frames) :
          \E j \in 1..Len(task'.frames) : task'.frames[j] = task.frames[i]
    /\ task'.wave_grid = task.wave_grid
    /\ stepper'.is_stopped = stepper.is_stopped
    /\ stepper.next_frame_future.st = "pending"
          => stepper'.next_frame_future.st # "orphaned"

\* C24: a pause request leaves the task's data and the stepper as they are,
\* and every step the driving loop takes while clock_paused is set removes
\* no frame from the list, keeps wave_grid and cancels no evaluation.
C24_PauseKeepsEverything ==
    [][/\ pause_simulation_clock
           => (Preserved /\ task'.frames = task.frames /\ stepper' = stepper)
       /\ (LoopSteps /\ task.clock_paused /\ ~task.stop_requested) => Preserved
      ]_vars

\* C24 witness: a pause request reached a running task that holds frames
\* while an evaluation was in flight, and frames and evaluation are there.
C24_Witness ==
    /\ resp.op = "pause"
    /\ ctl.phase = "paused"
    /\ Len(task.frames) >= 2
    /\ Last(task.frames).time = ctl.last_pre
    /\ stepper.next_frame_future = PendingFuture
    /\ stepper.in_flight = 1

\* A frames request has just been answered for a task with cached frames.
FramesAnswered ==
    /\ resp' # resp
    /\ resp'.op = "frames"
    /\ task.frames # <<>>

\* The answer is one cached frame, the last for the sentinel and otherwise
\* one at minimal distance from the time asked for.
AnswersClosest ==
    /\ resp'.code = 200
    /\ \E i \in 1..Len(task.frames) : resp'.frame = task.frames[i]
    /\ IF resp'.t = LATEST
       THEN resp'.frame = Last(task.frames)
       ELSE \A j \in 1..Len(task.frames) :
               Abs(resp'.frame.time - resp'.t)
                   <= Abs(task.frames[j].time - resp'.t)
    /\ (\E i \in 1..Len(task.frames) : task.frames[i].time = resp'.t)
          => resp'.frame.time = resp'.t

\* The time asked for lies before the retention window.
BeforeWindow ==
    /\ task.time_config.cache_retention_time # Unset
    /\ resp'.t # LATEST
    /\ resp'.t < Last(task.frames).time - task.time_config.cache_retention_time

\* C25 as stated: on a task with cached frames every frames request is
\* answered with one cached frame, the last one for time = -1 and otherwise
\* one whose distance to the requested time is minimal.
C25_ClosestFrameAlways == [][FramesAnswered => AnswersClosest]_vars

\* C25 amended: the same for every request whose time is not before the
\* retention window; a request before the window is answered 410 with no
\* frame.
C25_ClosestFrameInWindow ==
    [][FramesAnswered =>
          IF BeforeWindow
          THEN resp'.code = 410 /\ resp'.frame = None
          ELSE AnswersClosest
      ]_vars

\* C25 witness: a request for the exact time of a cached frame that is
\* neither the oldest nor the newest returned that frame.
C25_Witness ==
    /\ resp.op = "frames"
    /\ resp.code = 200
    /\ Len(task.frames) >= 3
    /\ resp.frame = task.frames[2]
    /\ resp.t = task.frames[2].time

GridBuilt == calc.op = "create_grid"

\* C26: for every valid region and discretization config, elongated regions
\* with a one-row lattice included, create_grid returns between 1 and
\* max_points grid points.
C26_GridWithinMaxPoints ==
    GridBuilt =>
        /\ 1 <= Len(calc.grid_points)
        /\ Len(calc.grid_points) <= calc.config.max_points

\* The part of C26 the grid builder keeps: the grid is never empty.
C26_GridNeverEmpty == GridBuilt => Len(calc.grid_points) >= 1

\* C27: for a fixed region, dx and dy, lowering max_points never increases
\* the number of grid points.
C27_MonotoneInMaxPoints ==
    GridBuilt =>
        \A lower \in 1..calc.config.max_points :
            Len(create_grid(calc.region, [calc.config EXCEPT !.max_points = lower]))
                <= Len(calc.grid_points)

\* The grid was scaled down, and a lower max_points scales it down further.
C27_Witness ==
    /\ GridBuilt
    /\ Len(calc.grid_points) < Len(create_grid(calc.region,
                                  [calc.config EXCEPT !.max_points = MaxPoints]))
    /\ \E lower \in 1..calc.config.max_points :
          Len(create_grid(calc.region, [calc.config EXCEPT !.max_points = lower]))
              < Len(calc.grid_points)

\* The query was issued at the time of a cached frame.
AtFrameTime ==
    /\ calc.op = "query_point"
    /\ \E k \in DOMAIN calc.frames : calc.frames[k].time = calc.time

\* C28: a point query exactly at a grid point and exactly at a cached frame's
\* time returns that grid point's stored height in that frame, also when the
\* dense grid is rebuilt from the cached frames.
C28_ExactAtGridPoint ==
    AtFrameTime => calc.wave_height = Height(calc.lon, calc.lat, calc.time)

\* The part of C28 that holds: on the dense grid built over create_grid's
\* points the query returns the stored height.
C28_ExactOnDenseGrid ==
    (AtFrameTime /\ ~calc.rebuilt) =>
        calc.wave_height = Height(calc.lon, calc.lat, calc.time)

\* eta(x, y, t) = sum of A_i * cos(k_i . r - omega_i * t + phi_i): the field
\* evaluated directly at a time.
WaveField(spectrum, grid_points, t) ==
    [i \in DOMAIN grid_points |->
        LET RECURSIVE Eta(_)
            Eta(c) == IF c = 0 THEN 0
                      ELSE Eta(c - 1) + Contribution(spectrum[c], grid_points[i], t)
        IN  Eta(Len(spectrum))]

\* Height arrays that could be passed to advance_wave_field.
HeightArrays(grid_points) == [DOMAIN grid_points -> {-1, 0, 3}]

\* step() has just returned a frame.
FrameStepped ==
    /\ calc.op \in {"initialize_wave_field", "advance_wave_field"}
    /\ ret.op = "step"
    /\ ret.val # None

\* C29: incremental and direct evaluation agree.  Frame k of the stepper is
\* at time k * dt and holds the field evaluated directly at that time, and
\* advancing from there by dt gives the direct evaluation at t + dt whatever
\* height array is passed in.
C29_IncrementalIsDirect ==
    FrameStepped =>
        /\ ret.val.time = (stepper.current_time_idx - 1) * stepper.dt
        /\ ret.val.wave_height = ret.val.time
        /\ calc.wave_height = WaveField(calc.spectrum, calc.grid_points, ret.val.time)
        /\ \A h \in HeightArrays(calc.grid_points) :
              advance_wave_field(h, calc.spectrum, calc.grid_points, stepper.dt,
                                 ret.val.time)
                  = WaveField(calc.spectrum, calc.grid_points, ret.val.time + stepper.dt)

\* The third frame of a two-component spectrum on a grid of several points,
\* with heights that differ from the initial ones.
C29_Witness ==
    /\ FrameStepped
    /\ calc.op = "advance_wave_field"
    /\ stepper.current_time_idx = 3
    /\ Len(calc.spectrum) = 2
    /\ Len(calc.grid_points) > 1
    /\ calc.wave_height # initialize_wave_field(calc.spectrum, calc.grid_points)
    /\ calc.wave_height # zeros(calc.grid_points)

\* What the claim lists of the task with a simulation_id.
TaskOf(id) ==
    IF id = other.id
    THEN [task |-> other.task, stepper |-> other.stepper]
    ELSE [task |-> task, stepper |-> stepper]

\* C30: tasks are independent.  Whatever is done to one task, stop-all apart,
\* leaves the status, frames, clock_paused, stop_requested and stepper of
\* every other task unchanged.
C30_TasksIndependent ==
    [][stop_all_simulations
         \/ \A id \in TaskIds \ {Focus} : TaskOf(id)' = TaskOf(id)]_vars

\* Both tasks have run: the one in focus has evicted a frame and was sent a
\* control request, the other one holds its frames and is still RUNNING.
C30_Witness ==
    /\ other # NoOther
    /\ task.frames # <<>>
    /\ task.frames[1].time > 0
    /\ resp.op \in {"pause", "resume", "stop"}
    /\ Len(other.task.frames) >= 2
    /\ other.task.frames[1].time = 0
    /\ other.task.status = "running"

\* A range request is answered on a task with cached frames.
RangeAnswered ==
    /\ resp' # resp
    /\ resp'.op = "frames_range"
    /\ task.frames # <<>>

\* The cached frames whose time lies in the requested range.
InRange(frames, time_min, time_max) ==
    SelectSeq(frames, LAMBDA f : time_min <= f.time /\ f.time <= time_max)

\* q is r with some entries left out, in r's order.
IsSubSeq(q, r) ==
    \E pick \in [1..Len(q) -> 1..Len(r)] :
        /\ \A i, j \in 1..Len(q) : i < j => pick[i] < pick[j]
        /\ \A i \in 1..Len(q) : q[i] = r[pick[i]]

\* C31: a range request returns only frames of the range, at most max_frames
\* of them, sampled from the filtered frames when these exceed the cap; a
\* range lying before the retention window fails with 410.
C31_RangeFilteredAndCapped ==
    [][RangeAnswered =>
        LET filtered == InRange(task.frames, resp'.t, resp'.time_max)
            R == task.time_config.cache_retention_time
        IN  IF R # Unset /\ resp'.time_max < Last(task.frames).time - R
            THEN resp'.code = 410
            ELSE /\ resp'.code = 200
                 /\ IsSubSeq(resp'.frames, filtered)
                 /\ Len(resp'.frames) =
                        (IF Len(filtered) > resp'.max_frames
                         THEN resp'.max_frames ELSE Len(filtered))]_vars

\* The loop leaves through the `frame is None` test or the checks before it,
\* holding the None that get_precomputed_frame() returned.
ExitsAfterNone ==
    /\ pc = "recheck"
    /\ frame = None
    /\ pc' = "exited"

\* C32: whenever the driving loop exits after get_precomputed_frame()
\* returned None, the task's status has been set to a terminal value, STOPPED
\* for a stop and COMPLETED for natural completion.
C32_ExitAfterNoneIsTerminal ==
    [][ExitsAfterNone =>
          task'.status = (IF task.stop_requested THEN "stopped" ELSE "completed")]_vars

\* The part of C32 that holds while no evaluation raises: the loop does not
\* exit after None leaving the task RUNNING.
C32_ExitAfterNoneNotRunning ==
    [][ExitsAfterNone => task'.status \in Terminal]_vars

\* Consecutive frames of the list are one dt apart.
OneDtApart(frames, dt) ==
    \A i \in 1..(Len(frames) - 1) : frames[i + 1].time - frames[i].time = dt

\* C33: however long the background evaluations take, the frames of the list
\* are one dt apart, and a step of the loop appends at most one frame, one dt
\* after the last one: no step is skipped or caught up.
C33_NoSkipNoCatchUp ==
    [][/\ OneDtApart(task'.frames, task.time_config.dt_backend)
       /\ (task'.frames # <<>> /\ task.frames # <<>>
              /\ Last(task'.frames) # Last(task.frames))
            => Last(task'.frames).time
                   = Last(task.frames).time + task.time_config.dt_backend]_vars

\* The loop has appended three frames, none was evicted, and it waits for an
\* evaluation that is not finished.
C33_Witness ==
    /\ Len(task.frames) >= 3
    /\ task.frames[1].time = 0
    /\ pc = "await"
    /\ stepper.next_frame_future.st = "pending"

\* The step appends a frame to the task's list.
FrameAppended ==
    /\ task'.frames # <<>>
    /\ \/ task.frames = <<>>
       \/ Last(task'.frames).time > Last(task.frames).time

\* C34: no frame is appended in a step where clock_paused is set, and a pause
\* that arrived while the loop awaited the precomputed frame or slept is
\* seen by the re-check: no frame is appended until a resume is requested.
C34_NoAppendWhilePaused ==
    [][FrameAppended => (~task.clock_paused /\ ctl.phase # "paused")]_vars

\* The part of C34 about the flag alone.
C34_NoAppendWithFlagSet == [][FrameAppended => ~task.clock_paused]_vars

\* The synchronous run: the stepper and the return after n calls of step()
\* on a new stepper.
RECURSIVE SyncAfter(_, _)
SyncAfter(time_config, n) ==
    IF n = 0 THEN [s |-> NewStepper(time_config), r |-> None]
    ELSE step(SyncAfter(time_config, n - 1).s)

\* A call of the pipelined run that yields a frame or None has returned.
PipeReturned ==
    /\ ret.op \in {"step", "get_precomputed_frame"}
    /\ ret.val # Awaiting

\* The number of that call: frames are counted by current_time_idx, and a
\* None comes one call after the last frame.
PipeCalls == IF ret.val # None THEN stepper.current_time_idx
             ELSE stepper.current_time_idx + 1

\* C35: the pipelined path refines the synchronous one.  Each call of the
\* pipelined run returns what the same call of repeated step() returns, a
\* frame of the same time or None, and leaves the same is_completed and
\* current_time, for every time limit and for none.
C35_PipelineRefinesStep ==
    PipeReturned =>
        LET sync == SyncAfter(task.time_config, PipeCalls) IN
        /\ ret.val = sync.r
        /\ stepper.is_completed = sync.s.is_completed
        /\ stepper.current_time = sync.s.current_time
        /\ stepper.current_time_idx = sync.s.current_time_idx

\* The pipelined run has returned its first None after frames, under a time
\* limit that is not a multiple of dt.
C35_Witness ==
    /\ PipeReturned
    /\ ret.op = "get_precomputed_frame"
    /\ ret.val = None
    /\ stepper.current_time_idx >= 2
    /\ stepper.time_limit # Unset
    /\ stepper.time_limit % stepper.dt # 0
\* C36: with a time limit, get_total_steps() is floor(time_limit/dt) + 1 and
\* equals the number of frames that repeated step() calls have returned when
\* the first None comes back; with no time limit it is infinite; and
\* get_current_step() never exceeds it.
FirstNone == ret.op = "step" /\ ret.val = None

C36_TotalStepsIsFrameCount ==
    /\ stepper.time_limit = Unset => get_total_steps(stepper) = inf
    /\ get_current_step(stepper) <= get_total_steps(stepper)
    /\ (FirstNone /\ stepper.time_limit # Unset) =>
           /\ get_total_steps(stepper) = (stepper.time_limit \div stepper.dt) + 1
           /\ get_current_step(stepper) = get_total_steps(stepper)

\* C36, the part that holds: the frames returned before the first None are
\* floor(time_limit/dt) + 1 in exact arithmetic, and get_total_steps() agrees
\* whenever the double quotient has the floor of the exact one.
C36_FrameCountIsExactQuotient ==
    /\ (FirstNone /\ stepper.time_limit # Unset) =>
           get_current_step(stepper) = (stepper.time_limit \div stepper.dt) + 1
    /\ <<stepper.time_limit, stepper.dt>> \notin QuotientBelow =>
           get_current_step(stepper) <= get_total_steps(stepper)

C36_Witness ==
    /\ FirstNone
    /\ stepper.time_limit # Unset
    /\ stepper.time_limit % stepper.dt # 0
    /\ get_current_step(stepper) = get_total_steps(stepper)

\* C37: for a task whose status is not terminal, clock_paused is set exactly
\* when the status is PAUSED, in every state reached by pause, resume, stop
\* and stop-all requests interleaved with the driving loop.
C37_FlagIffPaused ==
    task.status \notin Terminal =>
        (task.clock_paused <=> task.status = "paused")

\* A pause request answered after a stop-all, on a task that has frames and
\* is not terminal yet.
C37_Witness ==
    /\ task.status \notin Terminal
    /\ resp.op = "pause"
    /\ task.stop_requested
    /\ task.frames # <<>>

\* C38: with cache_retention_time = R and step dt, a task never holds more
\* than floor(R/dt) + 1 frames in a state a query handler can observe (the
\* loop at a suspension point), for bounded and unbounded runs alike.
FrameBound(time_config) ==
    (time_config.cache_retention_time \div time_config.dt_backend) + 1

C38_FramesWithinRetention ==
    (AtSuspension /\ task.time_config.cache_retention_time # Unset) =>
        Len(task.frames) <= FrameBound(task.time_config)

\* An unbounded run that holds the full window after frames were evicted.
C38_Witness ==
    /\ AtSuspension
    /\ task.time_config.T_total = Unset
    /\ task.time_config.cache_retention_time # Unset
    /\ Len(task.frames) = FrameBound(task.time_config)
    /\ task.frames[1].time > 0
    /\ task.time_config.cache_retention_time % task.time_config.dt_backend # 0

\* C39: while a background evaluation of the stepper is executing, no step of
\* the loop writes current_time, current_wave_height or current_time_idx; a
\* commit (after the initial frame) is made only from a future that has
\* resolved, with no evaluation executing; and an evaluation is scheduled
\* only while none is executing, in the step that commits (or that returns
\* the initial frame).
Evaluating(s) == s.in_flight > 0

C39_CommitOnlyBetweenEvaluations ==
    [][/\ Evaluating(stepper) => Committed(stepper') = Committed(stepper)
       /\ (Committed(stepper') # Committed(stepper) /\ pc # "start") =>
              /\ stepper.next_frame_future.st = "done"
              /\ Committed(stepper') =
                     <<stepper.next_frame_future.result.time,
                       stepper.next_frame_future.result.wave_height,
                       stepper.current_time_idx + 1>>
       /\ stepper'.in_flight > stepper.in_flight =>
              /\ ~Evaluating(stepper)
              /\ Committed(stepper') # Committed(stepper)
      ]_vars

\* An evaluation is executing for the frame after two committed ones while
\* the loop sleeps.
C39_Witness ==
    /\ Evaluating(stepper)
    /\ stepper.next_frame_future.st = "pending"
    /\ stepper.current_time_idx >= 3
    /\ pc = "pace_sleep"
    /\ frame # None
    /\ frame.time = stepper.current_time

\* C40: a task created without a time limit never has status COMPLETED,
\* whatever steps, pause, resume and stop requests occur.
C40_UnboundedNeverCompleted ==
    (/\ pc # "absent"
     /\ \/ ~hist.request.time.T_total.given
        \/ hist.request.time.T_total.value = -1) =>
        /\ task.time_config.T_total = Unset
        /\ task.status # "completed"

\* A task created with T_total = -1 whose loop has ended after an evaluation
\* returned None, and a stop request after that.
C40_Witness ==
    /\ hist.request.time.T_total.given
    /\ hist.request.time.T_total.value = -1
    /\ pc = "exited"
    /\ stepper.is_completed
    /\ ~stepper.is_stopped
    /\ task.frames # <<>>
    /\ resp.op = "stop"

==========================================================================
